---- MODULE Spec2Model ----
(***************************************************************************)
(* Model of the ingestion-and-classification pipeline of altair_back:      *)
(*   - the Gmail supervisor (GmailBackgroundWorker) and its poll workers,  *)
(*   - the per-user poll loop of GmailService,                             *)
(*   - the message classifier and the item store write,                    *)
(*   - the Telegram client session manager.                                *)
(* Every coroutine is cut at its suspension points (awaits of network      *)
(* calls, of sleeps and of other tasks): one action is the code that runs  *)
(* between two suspensions.  Awaiting a coroutine that never suspends      *)
(* (a synchronous database session) is not a suspension.                   *)
(***************************************************************************)
EXTENDS Integers, Sequences, FiniteSets, TLC

(***************************************************************************)
(* Bounds of the model.                                                    *)
(***************************************************************************)
NumUsers == 2
\* message ids known to the provider
NumMsgs == 7
\* message ids that arrive in the polling specification
PollMsgs == 2
\* scaled-down stand-ins for max_results=10, the cap 1000 and the kept 500
MaxResults == 3
DedupCap == 2
DedupKeep == 1
\* Items stored per (user, remote id) before the store stops accepting more
MaxItemsPerMsg == 2
\* monitor tasks, GmailService task objects per user, concurrent
\* start_polling_for_user calls
MaxMonitors == 2
MaxSvcTasks == 2
MaxCalls == 2

Users == 1..NumUsers
MsgIds == 1..NumMsgs
MonitorIds == 1..MaxMonitors
SvcSlots == 1..MaxSvcTasks
CallIds == 1..MaxCalls

\* GmailBackgroundWorker.polling_interval / GmailService.polling_interval
polling_interval == 30

VARIABLES
    \* ---- stores and provider
    account,         \* account[u]: a google OAuthAccount row with a token exists
    mailbox,         \* mailbox[u][m]: "future" | "unread" | "read"
    items,           \* items[u][m]: Items persisted for remote id m of user u
    \* ---- GmailBackgroundWorker
    running,         \* self.running
    worker_tasks,    \* keys of self.worker_tasks
    processed_keys,  \* keys of self.processed_messages
    processed,       \* processed[u]: self.processed_messages[u]
    supPc,           \* state of the task poll_user_gmail of user u
    supCancel,       \* task.cancel() was requested and is not yet delivered
    supBatch,        \* messages of the current cycle not yet handled
    supDelay,        \* argument of the asyncio.sleep the task is in
    supMade,         \* supMade[u][m]: Items this task made for m since m
                     \* entered its dedup window (history)
    monPc, monUser, monTodo,             \* _monitor_users tasks
    monSync,         \* monSync[i]: the _sync_user_tasks pass of monitor i: its
                     \* active_user_ids and how it ended
    stopPc, stopUser, stopRem, stopUsed, \* the call of stop()
    \* ---- GmailService
    polling_tasks,   \* polling_tasks[u]: slot of self._polling_tasks[u], 0: none
    svcPc, svcCancel, svcBatch, svcDelay,
    svcMade,         \* svcMade[u][s][m]: Items this task made for m (history)
    callPc, callUser, callTask,          \* start_polling_for_user calls
    \* ---- MessageClassifier.classify_message, one call
    clsPc,           \* "idle" | "called" | "done"
    clsText,         \* the text argument
    clsClient,       \* self.client is set (an API key is configured)
    clsReply,        \* what the external model does for this call
    clsOut,          \* how the call ended: [exc, value]
    \* ---- the item store and the ingestion operations
    db_items,        \* committed rows of table item
    db_classifications,  \* committed rows of table itemclassification
    ingOp,           \* the last ingestion operation and how it ended (history)
    \* ---- TelegramClientService
    clients,         \* self.clients: clients[key] is a client object, 0: no entry
    tgOwner,         \* tgOwner[c]: the user whose call created client object c
    tgKind,          \* "free" | "temp" | "permanent"
    tgConnected,     \* the client object holds a connection
    tgHandler,       \* a NewMessage handler is installed on the client
    telegram_session,  \* User.telegram_session: 0 is None
    tgPc,            \* tgPc[u]: where the call of user u is suspended
    tgKey,           \* session_key of the verify call of u
    tgPassword,      \* the verify call of u has a password
    tgTemp,          \* temp_client (or the client being disconnected) of the call
    tgPermanent,     \* permanent_client of the verify call
    tgResult,        \* how the last call of u ended (history)
    \* ---- TelegramClientService.restore_user_sessions
    restorePc,       \* "idle" | "connect" | "authorized" | "disconnect" | "done" | "raised"
    restoreUsers,    \* users: the users loaded with a stored session
    restoreTodo,     \* the users the for loop has not reached yet
    restoreUser,     \* user of the current iteration, 0: none
    restoreClient,   \* client of the current iteration, 0: none
    \* ---- the OAuthAccount table and the OAuth operations
    oauth_accounts,  \* rows of table oauthaccount (the polling specifications
                     \* keep of them only account[u]: a row of u exists)
    now,             \* datetime.utcnow()
    issued,          \* access tokens the provider has issued so far
    account_ids,     \* OAuthAccount ids created so far
    gvPc,            \* _get_valid_oauth_account: "idle" | "refresh"
    gvCall,          \* the call in progress: user, row examined, time of call
    gvResult,        \* how the last call ended (history)
    oauth_states,    \* _oauth_states: the users with a pending state
    cbPc,            \* google_oauth_callback: "idle" | "exchange" | "user_info"
    cbUser,          \* user_id of the callback in progress, 0: none
    cbResult         \* how the last callback ended (history)

storeVars == <<account, mailbox, items>>
supVars == <<worker_tasks, processed_keys, processed, supPc, supCancel,
             supBatch, supDelay, supMade>>
monVars == <<monPc, monUser, monTodo, monSync>>
stopVars == <<stopPc, stopUser, stopRem, stopUsed>>
svcVars == <<polling_tasks, svcPc, svcCancel, svcBatch, svcDelay, svcMade>>
callVars == <<callPc, callUser, callTask>>
gmailVars == <<storeVars, running, supVars, monVars, stopVars, svcVars, callVars>>

clsVars == <<clsPc, clsText, clsClient, clsReply, clsOut>>
ingVars == <<db_items, db_classifications, ingOp>>
restoreVars == <<restorePc, restoreUsers, restoreTodo, restoreUser, restoreClient>>
tgVars == <<clients, tgOwner, tgKind, tgConnected, tgHandler, telegram_session,
           tgPc, tgKey, tgPassword, tgTemp, tgPermanent, tgResult, restoreVars>>
oauthVars == <<oauth_accounts, now, issued, account_ids, gvPc, gvCall, gvResult,
              oauth_states, cbPc, cbUser, cbResult>>
otherVars == <<clsVars, ingVars, tgVars, oauthVars>>

vars == <<gmailVars, otherVars>>

(***************************************************************************)
(* Strings, as Python handles them.                                        *)
(***************************************************************************)
Min(a, b) == IF a < b THEN a ELSE b

\* s[:n] of a string or a list
Prefix(s, n) == IF Len(s) <= n THEN s ELSE SubSeq(s, 1, n)

Char(s, i) == SubSeq(s, i, i)

UpperAlphabet == "ABCDEFGHIJKLMNOPQRSTUVWXYZ"
LowerAlphabet == "abcdefghijklmnopqrstuvwxyz"

LowerChar(c) ==
    IF \E i \in 1..Len(UpperAlphabet) : Char(UpperAlphabet, i) = c
    THEN Char(LowerAlphabet, CHOOSE i \in 1..Len(UpperAlphabet) : Char(UpperAlphabet, i) = c)
    ELSE c

\* str.lower() of the characters i..j of s (by halves)
RECURSIVE LowerRange(_, _, _)
LowerRange(s, i, j) ==
    IF i > j THEN ""
    ELSE IF i = j THEN LowerChar(Char(s, i))
    ELSE LET mid == (i + j) \div 2
         IN LowerRange(s, i, mid) \o LowerRange(s, mid + 1, j)

lower(s) == LowerRange(s, 1, Len(s))

\* w in s
Contains(s, w) == \E i \in 1..(Len(s) - Len(w) + 1) : SubSeq(s, i, i + Len(w) - 1) = w

IsSpace(c) == c \in {" ", "\n", "\t"}

\* str.split(): the maximal runs of non-whitespace characters, in order
WordStarts(s) ==
    {i \in 1..Len(s) : ~IsSpace(Char(s, i)) /\ (i = 1 \/ IsSpace(Char(s, i - 1)))}

WordEnd(s, i) ==
    CHOOSE j \in i..Len(s) :
        /\ \A k \in i..j : ~IsSpace(Char(s, k))
        /\ (j = Len(s) \/ IsSpace(Char(s, j + 1)))

split(s) ==
    LET starts == WordStarts(s)
        nth(k) == CHOOSE i \in starts : Cardinality({j \in starts : j < i}) = k - 1
    IN [k \in 1..Cardinality(starts) |-> SubSeq(s, nth(k), WordEnd(s, nth(k)))]

\* " ".join(words)
RECURSIVE join(_)
join(words) ==
    IF words = <<>> THEN ""
    ELSE IF Len(words) = 1 THEN words[1]
    ELSE words[1] \o " " \o join(Tail(words))

(***************************************************************************)
(* JSON values of the model's reply, and Python values of a classification *)
(* record.  t: the type; s: the characters of a string; n: a number in     *)
(* hundredths (True is 1, False is 0); l: the elements of a list.          *)
(***************************************************************************)
JV(t, s, n, l) == [t |-> t, s |-> s, n |-> n, l |-> l]
Absent == JV("absent", "", 0, <<>>)           \* the key is not in the dict
JNull == JV("null", "", 0, <<>>)
JStr(s) == JV("str", s, 0, <<>>)
JNum(n) == JV("num", "", n, <<>>)
JBool(b) == JV("bool", "", IF b THEN 100 ELSE 0, <<>>)
JNaN == JV("nan", "", 0, <<>>)                \* json.loads accepts NaN,
JPosInf == JV("posinf", "", 0, <<>>)          \* Infinity and -Infinity
JNegInf == JV("neginf", "", 0, <<>>)
JList(l) == JV("list", "", 0, l)
JDict == JV("dict", "", 0, <<>>)              \* an object (unhashable)

\* the outcome of an evaluation: a value, or the exception it raised
Ok(v) == [exc |-> "", value |-> v]
Raise(e) == [exc |-> e, value |-> Absent]

\* dict.get(key, default)
Get(field, default) == IF field.t = "absent" THEN default ELSE field

\* bool(v)
Truthy(v) ==
    CASE v.t = "str" -> v.s # ""
      [] v.t = "list" -> v.l # <<>>
      [] v.t \in {"num", "bool"} -> v.n # 0
      [] v.t \in {"null", "absent"} -> FALSE
      [] OTHER -> TRUE

\* v[:n]
Slice(v, n) ==
    CASE v.t = "str" -> Ok(JStr(Prefix(v.s, n)))
      [] v.t = "list" -> Ok(JList(Prefix(v.l, n)))
      [] OTHER -> Raise("TypeError")

(***************************************************************************)
(* MessageClassifier.                                                      *)
(***************************************************************************)
valid_categories == {"meeting", "task", "information", "thought"}
valid_priorities == {"low", "medium", "high"}

TitleMax == 50
SummaryMax == 500
DefaultConfidence == 50
FallbackConfidence == 60
FallbackTitleWords == 6
FallbackTitleCut == 47
FallbackKeywords == 5
FallbackSummaryMax == 100

\* _generate_fallback_title: titles.get(category, "New Item")
generate_fallback_title(category) ==
    CASE category.t \in {"list", "dict"} -> Raise("TypeError")
      [] category = JStr("meeting") -> Ok(JStr("Meeting Item"))
      [] category = JStr("task") -> Ok(JStr("Task Item"))
      [] category = JStr("information") -> Ok(JStr("Information Item"))
      [] category = JStr("thought") -> Ok(JStr("Thought Item"))
      [] OTHER -> Ok(JStr("New Item"))

\* max(0.0, min(1.0, c)): min returns c when c < 1.0 and max returns its
\* second argument when it is > 0.0; a comparison with NaN is false
ClampConfidence(c) ==
    CASE c.t \in {"num", "bool"} ->
            Ok(JNum(IF c.n < 100 THEN (IF c.n > 0 THEN c.n ELSE 0) ELSE 100))
      [] c.t \in {"nan", "posinf"} -> Ok(JNum(100))
      [] c.t = "neginf" -> Ok(JNum(0))
      [] OTHER -> Raise("TypeError")

\* a value left as the reply gave it
KeepValue(v, valid, default) == v

\* if validated[key] not in valid: validated[key] = default
CoerceEnum(v, valid, default) ==
    IF v.t = "str" /\ v.s \in valid THEN v ELSE JStr(default)

DefaultEntities ==
    [dates |-> JList(<<>>), times |-> JList(<<>>), contact |-> JNull,
     projects |-> JList(<<>>), keywords |-> JList(<<>>)]

\* result.get("entities", {}).get(...); contact: the value of the key
\* contact of the entities object (the lists are left empty)
Entities(result) ==
    LET e == result.entities
    IN IF e.t = "absent" THEN Ok(DefaultEntities)
       ELSE IF e.t # "dict" THEN Raise("AttributeError")
       ELSE Ok([DefaultEntities EXCEPT !.contact = Get(result.contact, JNull)])

\* _validate_classification_result
validate_classification_result(result) ==
    IF result.kind # "object" THEN Raise("AttributeError")
    ELSE
    LET sliced == Slice(Get(result.title, JStr("")), TitleMax)
        title == IF sliced.exc # "" THEN sliced
                 ELSE IF Truthy(sliced.value) THEN sliced
                 ELSE generate_fallback_title(Get(result.category, JStr("information")))
        confidence == ClampConfidence(Get(result.confidence, JNum(DefaultConfidence)))
        entities == Entities(result)
        summary == Slice(Get(result.summary, JStr("")), SummaryMax)
        \* the dict display is evaluated in the order of its keys
        raised == IF title.exc # "" THEN title.exc
                  ELSE IF confidence.exc # "" THEN confidence.exc
                  ELSE IF entities.exc # "" THEN entities.exc
                  ELSE summary.exc
    IN IF raised # "" THEN Raise(raised)
       ELSE [exc |-> "",
             value |->
               [title |-> title.value,
                category |-> CoerceEnum(Get(result.category, JStr("information")),
                                        valid_categories, "information"),
                confidence |-> confidence.value,
                entities |-> entities.value,
                priority |-> CoerceEnum(Get(result.priority, JStr("medium")),
                                        valid_priorities, "medium"),
                action_required |-> Get(result.action_required, JBool(FALSE)),
                summary |-> summary.value]]

meeting_keywords == {"meeting", "call", "appointment", "schedule", "meet", "conference"}
task_keywords == {"task", "todo", "deadline", "complete", "finish", "do", "need to",
                  "must", "should"}
thought_keywords == {"idea", "think", "suggest", "propose", "maybe", "consider", "what if"}

AnyIn(words, text) == \E w \in words : Contains(text, w)

\* a fallback that looks for the task keywords first
FallbackTaskFirst(text_lower) ==
    IF AnyIn(task_keywords, text_lower) THEN "task"
    ELSE IF AnyIn(meeting_keywords, text_lower) THEN "meeting"
    ELSE IF AnyIn(thought_keywords, text_lower) THEN "thought"
    ELSE "information"

\* the category of the fallback: the first list with a keyword in the text
FallbackCategory(text_lower) ==
    IF AnyIn(meeting_keywords, text_lower) THEN "meeting"
    ELSE IF AnyIn(task_keywords, text_lower) THEN "task"
    ELSE IF AnyIn(thought_keywords, text_lower) THEN "thought"
    ELSE "information"

\* the title of the fallback: the first words, cut when too long
FallbackTitle(joined) ==
    IF Len(joined) > TitleMax THEN Prefix(joined, FallbackTitleCut) \o "..." ELSE joined

FallbackRecord(text, text_lower, category, fallback_title) ==
    [title |-> IF fallback_title # "" THEN JStr(fallback_title)
               ELSE generate_fallback_title(JStr(category)).value,
     category |-> JStr(category),
     confidence |-> JNum(FallbackConfidence),
     entities |-> [DefaultEntities EXCEPT
                     !.keywords = JList(Prefix(split(text_lower), FallbackKeywords))],
     priority |-> JStr(IF category \in {"meeting", "task"} THEN "high"
                       ELSE IF category = "thought" THEN "low" ELSE "medium"),
     action_required |-> JBool(category \in {"meeting", "task"}),
     summary |-> JStr(IF Len(text) > FallbackSummaryMax
                      THEN Prefix(text, FallbackSummaryMax) \o "..." ELSE text)]

FallbackOf(text, text_lower) ==
    FallbackRecord(text, text_lower, FallbackCategory(text_lower),
                   FallbackTitle(join(Prefix(split(text), FallbackTitleWords))))

\* _fallback_classification
fallback_classification(text) == FallbackOf(text, lower(text))

\* The classes of the exceptions of the model that derive from Exception;
\* asyncio.CancelledError derives from BaseException only.
ExceptionClasses == {"APIError", "IndexError", "JSONDecodeError", "TypeError",
                     "AttributeError", "ValidationError", "SQLAlchemyError"}

\* the try block of classify_message: the API call, json.loads of the
\* content of the first choice, the validation
ModelPath(reply) ==
    CASE reply.kind = "cancelled" -> Raise("CancelledError")
      [] reply.kind = "transport_error" -> Raise("APIError")
      [] reply.kind = "no_choices" -> Raise("IndexError")
      [] reply.kind = "no_content" -> Raise("TypeError")
      [] reply.kind = "not_json" -> Raise("JSONDecodeError")
      [] OTHER -> validate_classification_result(reply)

\* a handler that catches nothing
ExceptNothing(exc) == FALSE

\* except Exception
ExceptException(exc) == exc \in ExceptionClasses

\* classify_message
classify_message(text, client, reply) ==
    IF ~client THEN Ok(fallback_classification(text))
    ELSE LET r == ModelPath(reply)
         IN IF r.exc = "" THEN r
            ELSE IF r.exc = "JSONDecodeError" THEN Ok(fallback_classification(text))
            ELSE IF ExceptException(r.exc) THEN Ok(fallback_classification(text))
            ELSE Raise(r.exc)

\* what the model does for one call.  kind: "object" (the content is a
\* JSON object with these fields), "json_other" (JSON, but no object),
\* "not_json", "no_content", "no_choices", "transport_error", "cancelled"
\* (the calling task is cancelled during the API call)
Reply(kind, title, category, confidence, entities, contact, priority, action, summary) ==
    [kind |-> kind, title |-> title, category |-> category, confidence |-> confidence,
     entities |-> entities, contact |-> contact, priority |-> priority,
     action_required |-> action, summary |-> summary]

Bare(kind) == Reply(kind, Absent, Absent, Absent, Absent, Absent, Absent, Absent, Absent)

ClsIdle ==
    /\ clsPc = "idle"
    /\ clsText = ""
    /\ clsClient = FALSE
    /\ clsReply = Bare("none")
    /\ clsOut = Ok(Absent)

NoOp ==
    [op |-> "none", user |-> 0, classified |-> FALSE, write |-> "none",
     failed_at |-> "none", outcome |-> "none", reply |-> "none", transcript |-> "none",
     item_title |-> "", original_text |-> "", cls_title |-> Absent]

IngIdle ==
    /\ db_items = {}
    /\ db_classifications = {}
    /\ ingOp = NoOp

MaxClients == 4
ClientIds == 1..MaxClients

\* the keys of self.clients: the user ids and the keys "temp_<user id>"
session_key(u) == NumUsers + u
ClientKeys == 1..(2 * NumUsers)

\* a process that has just started: no client object, no call
TgProcessStart ==
    /\ clients = [k \in ClientKeys |-> 0]
    /\ tgOwner = [c \in ClientIds |-> 0]
    /\ tgKind = [c \in ClientIds |-> "free"]
    /\ tgConnected = [c \in ClientIds |-> FALSE]
    /\ tgHandler = [c \in ClientIds |-> FALSE]
    /\ restorePc = "idle"
    /\ restoreUsers = {}
    /\ restoreTodo = {}
    /\ restoreUser = 0
    /\ restoreClient = 0
    /\ tgPc = [u \in Users |-> "idle"]
    /\ tgKey = [u \in Users |-> 0]
    /\ tgPassword = [u \in Users |-> FALSE]
    /\ tgTemp = [u \in Users |-> 0]
    /\ tgPermanent = [u \in Users |-> 0]
    /\ tgResult = [u \in Users |-> "none"]

TgIdle == TgProcessStart /\ telegram_session = [u \in Users |-> 0]

\* a row of table oauthaccount; refresh_token 0: None, expires_at 0: None
NoAccount ==
    [id |-> 0, user_id |-> 0, provider_account_id |-> 0, access_token |-> 0,
     refresh_token |-> 0, expires_at |-> 0]

NoCall == [user |-> 0, account |-> NoAccount, called_at |-> 0]

NoResult ==
    [user |-> 0, outcome |-> "none", account |-> NoAccount, examined |-> NoAccount,
     called_at |-> 0, refresh |-> "none", expires_in |-> 0, persisted |-> "none"]

OAuthIdle ==
    /\ oauth_accounts = {}
    /\ now = 1
    /\ issued = 0
    /\ account_ids = 0
    /\ gvPc = "idle"
    /\ gvCall = NoCall
    /\ gvResult = NoResult
    /\ oauth_states = {}
    /\ cbPc = "idle"
    /\ cbUser = 0
    /\ cbResult = [user |-> 0, outcome |-> "none"]

OtherIdle == ClsIdle /\ IngIdle /\ TgIdle /\ OAuthIdle

(***************************************************************************)
(* Provider and messages.                                                  *)
(***************************************************************************)
\* What extract_message_content does with message m: "text" (a text/plain
\* part with data), "bad" (data that does not decode: the call raises),
\* "empty" (no text/plain part: body "").
BodyKind(m) == IF m = 2 THEN "bad" ELSE IF m = 3 THEN "empty" ELSE "text"

RECURSIVE NewestFirst(_)
NewestFirst(S) ==
    IF S = {} THEN <<>>
    ELSE LET top == CHOOSE x \in S : \A y \in S : y <= x
         IN <<top>> \o NewestFirst(S \ {top})

Unread(u) == {m \in MsgIds : mailbox[u][m] = "unread"}

\* The lists get_user_messages can return for the query is:unread: the first
\* max_results unread ids, less the messages whose details could not be
\* fetched; [] on an API error.
FetchResults(u) ==
    LET listed == Prefix(NewestFirst(Unread(u)), MaxResults)
        ids == {listed[i] : i \in 1..Len(listed)}
    IN {NewestFirst(S) : S \in SUBSET ids}

NoMade == [m \in MsgIds |-> 0]

(***************************************************************************)
(* poll_user_gmail: the worker task of the supervisor.                     *)
(***************************************************************************)
NormalDelay == polling_interval
RetryDelay == polling_interval

\* task.done(): the coroutine returned ("done") or the task ended with the
\* CancelledError that left the coroutine ("cancelled")
Finished == {"done", "cancelled"}

\* How a cancelled worker ends, by the await it is suspended in.  Inside the
\* try (the fetch, the processing, the sleep after the cycle) the
\* CancelledError reaches `except asyncio.CancelledError: break` and the
\* coroutine returns.  The retry sleep is in the body of the `except
\* Exception` handler and a task that has not taken its first step has not
\* entered the coroutine: there the CancelledError ends the task.
CancelEnd(pc) == IF pc \in {"new", "retry"} THEN "cancelled" ELSE "done"

\* a worker loop without the handler: the exception ends the task
SupOnExceptionExits(seen) ==
    [pc |-> "done", batch |-> <<>>, seen |-> seen, delay |-> 0]

\* except Exception in the worker loop: log, sleep, next iteration
SupOnException(seen) ==
    [pc |-> "retry", batch |-> <<>>, seen |-> seen, delay |-> RetryDelay]

\* the for loop skips ids already processed and messages with an empty body
RECURSIVE SkipSeen(_, _)
SkipSeen(batch, seen) ==
    IF batch = <<>> THEN <<>>
    ELSE IF Head(batch) \in seen \/ BodyKind(Head(batch)) = "empty"
         THEN SkipSeen(Tail(batch), seen)
         ELSE batch

\* set(list(processed)[-500:]): the iteration order of a set is not
\* specified, so any subset of the kept size can remain
KeepChoices(seen) ==
    IF Cardinality(seen) > DedupCap
    THEN {S \in SUBSET seen : Cardinality(S) = DedupKeep}
    ELSE {seen}

\* The for loop over the messages from `batch` on, up to the next suspension
\* (process_and_classify_email awaiting the classifier) or to the sleep.
SupScan(batch, seen, haskey, kept) ==
    IF ~haskey THEN SupOnException(seen)
    ELSE LET rest == SkipSeen(batch, seen)
         IN IF rest = <<>>
            THEN [pc |-> "sleep", batch |-> <<>>, seen |-> kept, delay |-> NormalDelay]
            ELSE IF BodyKind(Head(rest)) = "bad"
                 THEN SupOnException(seen)
                 ELSE [pc |-> "classify", batch |-> rest, seen |-> seen, delay |-> 0]

\* `while self.running:` and the call of get_user_messages up to its first
\* suspension.  dberr: the session of _get_valid_oauth_account raises.
SupLoop(u, seen, haskey, dberr, kept) ==
    IF ~running
    THEN [pc |-> "done", batch |-> <<>>, seen |-> seen, delay |-> 0]
    ELSE IF dberr THEN SupOnException(seen)
    ELSE IF ~account[u] THEN SupScan(<<>>, seen, haskey, kept)
    ELSE [pc |-> "fetch", batch |-> <<>>, seen |-> seen, delay |-> 0]

\* a finished task wakes the coroutines awaiting it
WakeSupWaiters(u) ==
    /\ monPc' = [i \in MonitorIds |->
                    IF monPc[i] = "await" /\ monUser[i] = u THEN "ready" ELSE monPc[i]]
    /\ stopPc' = IF stopPc = "await" /\ stopUser = u THEN "ready" ELSE stopPc

SupApply(u, r, mk) ==
    /\ supPc' = [supPc EXCEPT ![u] = r.pc]
    /\ supBatch' = [supBatch EXCEPT ![u] = r.batch]
    /\ processed' = [processed EXCEPT ![u] = r.seen]
    /\ supDelay' = [supDelay EXCEPT ![u] = r.delay]
    /\ supMade' = [supMade EXCEPT ![u] = [m \in MsgIds |-> IF m \in r.seen THEN mk[m] ELSE 0]]
    /\ IF r.pc \in Finished THEN WakeSupWaiters(u) ELSE UNCHANGED <<monPc, stopPc>>

\* first step of the task: processed_messages[user_id] = set(), then the loop
SupRun(u) ==
    /\ supPc[u] = "new" /\ ~supCancel[u]
    /\ processed_keys' = processed_keys \cup {u}
    /\ \E dberr \in BOOLEAN :
          SupApply(u, SupLoop(u, {}, TRUE, dberr, {}), NoMade)
    /\ UNCHANGED <<otherVars, storeVars, running, worker_tasks, supCancel, monUser, monTodo,
                   monSync,
                   stopUser, stopRem, stopUsed, svcVars, callVars>>

\* asyncio.sleep returns (after a cycle or after a failed cycle)
SupWake(u) ==
    /\ supPc[u] \in {"sleep", "retry"} /\ ~supCancel[u]
    /\ \E dberr \in BOOLEAN, kept \in KeepChoices(processed[u]) :
          SupApply(u, SupLoop(u, processed[u], u \in processed_keys, dberr, kept),
                   supMade[u])
    /\ UNCHANGED <<otherVars, storeVars, running, worker_tasks, processed_keys, supCancel,
                   monUser, monTodo, monSync, stopUser, stopRem, stopUsed, svcVars, callVars>>

\* get_user_messages returns
SupFetchReturn(u) ==
    /\ supPc[u] = "fetch" /\ ~supCancel[u]
    /\ \E msgs \in FetchResults(u), kept \in KeepChoices(processed[u]) :
          SupApply(u, SupScan(msgs, processed[u], u \in processed_keys, kept),
                   supMade[u])
    /\ UNCHANGED <<otherVars, storeVars, running, worker_tasks, processed_keys, supCancel,
                   monUser, monTodo, monSync, stopUser, stopRem, stopUsed, svcVars, callVars>>

\* process_and_classify_email: the classifier returned; the Item is written
\* (ok) or the write fails and None is returned; the id is then added to the
\* dedup set and the for loop goes on.
SupClassifyReturn(u) ==
    /\ supPc[u] = "classify" /\ ~supCancel[u]
    /\ LET m == Head(supBatch[u])
       IN \E ok \in BOOLEAN :
            /\ ok => items[u][m] < MaxItemsPerMsg
            /\ items' = IF ok THEN [items EXCEPT ![u][m] = @ + 1] ELSE items
            /\ LET mk == IF ok THEN [supMade[u] EXCEPT ![m] = @ + 1] ELSE supMade[u]
                   seen == IF u \in processed_keys THEN processed[u] \cup {m}
                           ELSE processed[u]
               IN \E kept \in KeepChoices(seen) :
                     SupApply(u, SupScan(Tail(supBatch[u]), seen,
                                         u \in processed_keys, kept), mk)
    /\ UNCHANGED <<otherVars, account, mailbox, running, worker_tasks, processed_keys, supCancel,
                   monUser, monTodo, monSync, stopUser, stopRem, stopUsed, svcVars, callVars>>

\* The pending cancellation is delivered at the await the task is suspended
\* in: CancelledError breaks the loop (inside the try) or leaves the task
\* (inside the except handler's sleep, or before the first step).
SupCancelled(u) ==
    /\ supPc[u] \in {"new", "fetch", "classify", "sleep", "retry"} /\ supCancel[u]
    /\ supCancel' = [supCancel EXCEPT ![u] = FALSE]
    /\ SupApply(u, [pc |-> CancelEnd(supPc[u]), batch |-> <<>>, seen |-> processed[u],
                     delay |-> 0],
                supMade[u])
    /\ UNCHANGED <<otherVars, storeVars, running, worker_tasks, processed_keys,
                   monUser, monTodo, monSync, stopUser, stopRem, stopUsed, svcVars, callVars>>

(***************************************************************************)
(* GmailBackgroundWorker: start, _monitor_users, _sync_user_tasks, stop.   *)
(***************************************************************************)
\* _stop_user_task for the users of `todo`, in the (unspecified) order of
\* the set difference, up to the first task that has to be awaited.  A task
\* that is already done is awaited without suspending and its entries are
\* deleted.  first: the user whose awaited task just ended (its entries are
\* deleted first); wt, pcs, cancels: the registry and tasks after the starts.
MonStops(i, first, todo, wt, pcs, cancels) ==
    LET live == {u \in todo : u \in wt /\ pcs[u] \notin Finished}
        dead == (todo \ live) \cap wt
        Drop(D0) ==
            LET D == D0 \cup first IN
            /\ worker_tasks' = wt \ D
            /\ processed_keys' = processed_keys \ D
            /\ processed' = [u \in Users |-> IF u \in D THEN {} ELSE processed[u]]
            /\ supMade' = [u \in Users |-> IF u \in D THEN NoMade ELSE supMade[u]]
            /\ supPc' = [u \in Users |-> IF u \in D THEN "none" ELSE pcs[u]]
    IN \/ /\ live = {}
          /\ Drop(dead)
          /\ supCancel' = cancels
          /\ monPc' = [monPc EXCEPT ![i] = "sleep"]
          /\ monUser' = [monUser EXCEPT ![i] = 0]
          /\ monTodo' = [monTodo EXCEPT ![i] = {}]
       \/ \E u \in live, D \in SUBSET dead :
          /\ Drop(D)
          /\ supCancel' = [cancels EXCEPT ![u] = TRUE]
          /\ monPc' = [monPc EXCEPT ![i] = "await"]
          /\ monUser' = [monUser EXCEPT ![i] = u]
          /\ monTodo' = [monTodo EXCEPT ![i] = (todo \cap wt) \ (D \cup {u})]

\* The pass of _sync_user_tasks a monitor is in or has ended: "none" (no
\* pass yet), "running" (suspended in _stop_user_task), "ok" (ended without
\* an exception), "failed" (ended in its handler); active: active_user_ids.
\* pass: flips when a pass ends, so that two passes in a row with the same
\* outcome are two states.
NoSync == [state |-> "none", active |-> {}, pass |-> FALSE]
SyncFailed(last) == [state |-> "failed", active |-> {}, pass |-> ~last.pass]
SyncOf(pc, active, last) ==
    IF pc = "sleep" THEN [state |-> "ok", active |-> active, pass |-> ~last.pass]
    ELSE [state |-> "running", active |-> active, pass |-> last.pass]

\* a pass that starts the workers of the new users and stops none
MonitorPassStartsOnly(i) ==
    /\ monPc[i] \in {"new", "sleep"}
    /\ IF ~running
       THEN /\ monPc' = [monPc EXCEPT ![i] = "none"]
            /\ monSync' = [monSync EXCEPT ![i] = NoSync]
            /\ UNCHANGED <<supVars, monUser, monTodo>>
       ELSE LET active == {u \in Users : account[u]}
                fresh == active \ worker_tasks
            IN /\ MonStops(i, {}, {}, worker_tasks \cup fresh,
                           [u \in Users |-> IF u \in fresh THEN "new" ELSE supPc[u]],
                           [u \in Users |-> IF u \in fresh THEN FALSE ELSE supCancel[u]])
               /\ monSync' = [monSync EXCEPT ![i] = SyncOf(monPc'[i], active, monSync[i])]
               /\ UNCHANGED <<supBatch, supDelay>>
    /\ UNCHANGED <<otherVars, storeVars, running, stopVars, svcVars, callVars>>

\* One iteration of `while self.running:` of _monitor_users, from the task's
\* first step or from the end of its sleep: _sync_user_tasks up to the first
\* awaited task, or to the sleep(60).  A failing query is logged by
\* _sync_user_tasks and the pass does nothing.
MonitorPass(i) ==
    /\ monPc[i] \in {"new", "sleep"}
    /\ IF ~running
       THEN /\ monPc' = [monPc EXCEPT ![i] = "none"]
            /\ monSync' = [monSync EXCEPT ![i] = NoSync]
            /\ UNCHANGED <<supVars, monUser, monTodo>>
       ELSE \/ /\ monPc' = [monPc EXCEPT ![i] = "sleep"]
               /\ monSync' = [monSync EXCEPT ![i] = SyncFailed(monSync[i])]
               /\ UNCHANGED <<supVars, monUser, monTodo>>
            \/ LET active == {u \in Users : account[u]}
                   current == worker_tasks
                   fresh == active \ current
               IN /\ \A u \in fresh, j \in MonitorIds : ~(monPc[j] = "ready" /\ monUser[j] = u)
                  /\ MonStops(i, {}, current \ active, current \cup fresh,
                              [u \in Users |-> IF u \in fresh THEN "new" ELSE supPc[u]],
                              [u \in Users |-> IF u \in fresh THEN FALSE ELSE supCancel[u]])
                  /\ monSync' = [monSync EXCEPT ![i] = SyncOf(monPc'[i], active, monSync[i])]
                  /\ UNCHANGED <<supBatch, supDelay>>
    /\ UNCHANGED <<otherVars, storeVars, running, stopVars, svcVars, callVars>>

\* a pass that ends after the first worker it has awaited
MonitorResumeStopsOne(i) ==
    /\ monPc[i] = "ready"
    /\ LET u == monUser[i]
       IN IF u \notin worker_tasks
          THEN /\ monPc' = [monPc EXCEPT ![i] = "sleep"]
               /\ monUser' = [monUser EXCEPT ![i] = 0]
               /\ monTodo' = [monTodo EXCEPT ![i] = {}]
               /\ monSync' = [monSync EXCEPT ![i] = SyncFailed(monSync[i])]
               /\ UNCHANGED supVars
          ELSE /\ MonStops(i, {u}, {}, worker_tasks, supPc, supCancel)
               /\ monSync' = [monSync EXCEPT ![i] = SyncOf(monPc'[i], monSync[i].active, monSync[i])]
               /\ UNCHANGED <<supBatch, supDelay>>
    /\ UNCHANGED <<otherVars, storeVars, running, stopVars, svcVars, callVars>>

\* _stop_user_task after `await task`: del self.worker_tasks[user_id] (a
\* KeyError when the entry is gone ends the pass in _sync_user_tasks'
\* handler), then the remaining users.
MonitorResume(i) ==
    /\ monPc[i] = "ready"
    /\ LET u == monUser[i]
       IN IF u \notin worker_tasks
          THEN /\ monPc' = [monPc EXCEPT ![i] = "sleep"]
               /\ monUser' = [monUser EXCEPT ![i] = 0]
               /\ monTodo' = [monTodo EXCEPT ![i] = {}]
               /\ monSync' = [monSync EXCEPT ![i] = SyncFailed(monSync[i])]
               /\ UNCHANGED supVars
          ELSE /\ MonStops(i, {u}, monTodo[i], worker_tasks, supPc, supCancel)
               /\ monSync' = [monSync EXCEPT ![i] = SyncOf(monPc'[i], monSync[i].active, monSync[i])]
               /\ UNCHANGED <<supBatch, supDelay>>
    /\ UNCHANGED <<otherVars, storeVars, running, stopVars, svcVars, callVars>>

\* start(): nothing when running, else running = True and a new monitor task
\* (ids: the task objects the model has for it)
StartWith(ids) ==
    /\ stopPc \notin {"await", "ready"}
    /\ IF running
       THEN UNCHANGED <<running, monPc>>
       ELSE /\ \E i \in ids : monPc[i] = "none"
            /\ running' = TRUE
            /\ LET i == CHOOSE j \in ids :
                           monPc[j] = "none" /\ \A k \in ids : monPc[k] = "none" => j <= k
               IN monPc' = [monPc EXCEPT ![i] = "new"]
    /\ stopPc' = "idle"
    /\ UNCHANGED <<otherVars, storeVars, supVars, monUser, monTodo, monSync, stopUser, stopRem, stopUsed,
                   svcVars, callVars>>

Start == StartWith(MonitorIds)

\* The loop `for user_id, task in self.worker_tasks.items()` of stop() from
\* the entries `rem` on: a done task is awaited without suspending; the
\* first live one is cancelled and awaited.  After the loop both maps are
\* cleared.
StopIterate(rem) ==
    LET live == {u \in rem : supPc[u] \notin Finished}
        dead == rem \ live
    IN \/ /\ live = {}
          /\ worker_tasks' = {}
          /\ processed_keys' = {}
          /\ processed' = [u \in Users |-> {}]
          /\ supMade' = [u \in Users |-> IF supPc[u] \in Finished THEN NoMade ELSE supMade[u]]
          /\ supPc' = [u \in Users |-> IF supPc[u] \in Finished THEN "none" ELSE supPc[u]]
          /\ stopPc' = "returned"
          /\ stopUser' = 0
          /\ stopRem' = {}
          /\ stopUsed' = 0
          /\ UNCHANGED supCancel
       \/ \E u \in live, D \in SUBSET dead :
          /\ supCancel' = [supCancel EXCEPT ![u] = TRUE]
          /\ stopPc' = "await"
          /\ stopUser' = u
          /\ stopRem' = rem \ (D \cup {u})
          /\ stopUsed' = Cardinality(worker_tasks)
          /\ UNCHANGED <<worker_tasks, processed_keys, processed, supMade, supPc>>

\* stop() is called
StopCall ==
    /\ stopPc \in {"idle", "returned", "raised"}
    /\ running' = FALSE
    /\ StopIterate(worker_tasks)
    /\ UNCHANGED <<otherVars, storeVars, supBatch, supDelay, monVars, svcVars, callVars>>

\* stop() resumes after `await task`.  The coroutines that awaited the task
\* earlier (the monitor, in _stop_user_task) run first.  The dict iterator
\* raises RuntimeError when the dict changed size during the iteration.
StopResume ==
    /\ stopPc = "ready"
    /\ \A i \in MonitorIds : monPc[i] # "ready"
    /\ IF Cardinality(worker_tasks) # stopUsed
       THEN /\ stopPc' = "raised"
            /\ stopUser' = 0
            /\ stopRem' = {}
            /\ stopUsed' = 0
            /\ UNCHANGED supVars
       ELSE /\ StopIterate(stopRem)
            /\ UNCHANGED <<supBatch, supDelay>>
    /\ UNCHANGED <<otherVars, storeVars, running, monVars, svcVars, callVars>>

(***************************************************************************)
(* GmailService._poll_user_messages: the worker task of the service.       *)
(***************************************************************************)
SvcNormalDelay == polling_interval
SvcRetryDelay == polling_interval

\* except Exception of the polling loop: log, sleep, next iteration
SvcOnException == [pc |-> "retry", batch |-> <<>>, delay |-> SvcRetryDelay]

\* a message whose extraction raises is logged by the inner handler and the
\* for loop goes to the next message
RECURSIVE SvcSkipBad(_)
SvcSkipBad(batch) ==
    IF batch = <<>> THEN <<>>
    ELSE IF BodyKind(Head(batch)) = "bad" THEN SvcSkipBad(Tail(batch))
         ELSE batch

\* the for loop from `batch` on, up to the next suspension or to the sleep
SvcScan(batch) ==
    LET rest == SvcSkipBad(batch)
    IN IF rest = <<>>
       THEN [pc |-> "sleep", batch |-> <<>>, delay |-> SvcNormalDelay]
       ELSE [pc |-> "classify", batch |-> rest, delay |-> 0]

\* `while True:` and get_user_messages up to its first suspension
SvcLoop(u, dberr) ==
    IF dberr THEN SvcOnException
    ELSE IF ~account[u] THEN SvcScan(<<>>)
    ELSE [pc |-> "fetch", batch |-> <<>>, delay |-> 0]

SvcApply(u, s, r, mk) ==
    /\ svcPc' = [svcPc EXCEPT ![u][s] = r.pc]
    /\ svcBatch' = [svcBatch EXCEPT ![u][s] = r.batch]
    /\ svcDelay' = [svcDelay EXCEPT ![u][s] = r.delay]
    /\ svcMade' = [svcMade EXCEPT ![u][s] = mk]

\* first step of the task, or asyncio.sleep returns
SvcWake(u, s) ==
    /\ svcPc[u][s] \in {"new", "sleep", "retry"} /\ ~svcCancel[u][s]
    /\ \E dberr \in BOOLEAN : SvcApply(u, s, SvcLoop(u, dberr), svcMade[u][s])
    /\ UNCHANGED <<otherVars, storeVars, running, supVars, monVars, stopVars, polling_tasks,
                   svcCancel, callVars>>

\* get_user_messages returns
SvcFetchReturn(u, s) ==
    /\ svcPc[u][s] = "fetch" /\ ~svcCancel[u][s]
    /\ \E msgs \in FetchResults(u) : SvcApply(u, s, SvcScan(msgs), svcMade[u][s])
    /\ UNCHANGED <<otherVars, storeVars, running, supVars, monVars, stopVars, polling_tasks,
                   svcCancel, callVars>>

\* process_and_classify_email: the classifier returned; the Item is written
\* (ok) or the write fails and None is returned.  Then _mark_message_as_read
\* up to its request: its session raises (dberr, logged by the inner
\* handler), or there is no account (return), or the request is sent.
SvcClassifyReturn(u, s) ==
    /\ svcPc[u][s] = "classify" /\ ~svcCancel[u][s]
    /\ LET m == Head(svcBatch[u][s])
       IN \E ok \in BOOLEAN, dberr \in BOOLEAN :
            /\ ok => items[u][m] < MaxItemsPerMsg
            /\ ok => svcMade[u][s][m] < MaxItemsPerMsg
            /\ items' = IF ok THEN [items EXCEPT ![u][m] = @ + 1] ELSE items
            /\ LET mk == IF ok THEN [svcMade[u][s] EXCEPT ![m] = @ + 1] ELSE svcMade[u][s]
               IN IF dberr \/ ~account[u]
                  THEN SvcApply(u, s, SvcScan(Tail(svcBatch[u][s])), mk)
                  ELSE SvcApply(u, s, [pc |-> "mark", batch |-> svcBatch[u][s], delay |-> 0], mk)
    /\ UNCHANGED <<otherVars, account, mailbox, running, supVars, monVars, stopVars, polling_tasks,
                   svcCancel, callVars>>

\* the modify request of _mark_message_as_read returns: the UNREAD label is
\* removed (ok) or the failure is logged
SvcMarkReturn(u, s) ==
    /\ svcPc[u][s] = "mark" /\ ~svcCancel[u][s]
    /\ LET m == Head(svcBatch[u][s])
       IN \E ok \in BOOLEAN :
            mailbox' = IF ok THEN [mailbox EXCEPT ![u][m] = "read"] ELSE mailbox
    /\ SvcApply(u, s, SvcScan(Tail(svcBatch[u][s])), svcMade[u][s])
    /\ UNCHANGED <<otherVars, account, items, running, supVars, monVars, stopVars, polling_tasks,
                   svcCancel, callVars>>

\* a finished task object that nothing refers to any more is dropped
SvcReferenced(u, s, reg, cpc) ==
    \/ reg[u] = s
    \/ \E c \in CallIds : cpc[c] \in {"await", "ready"} /\ callUser[c] = u /\ callTask[c] = s

SvcCollect(pcs, reg, cpc) ==
    [u \in Users |-> [s \in SvcSlots |->
        IF pcs[u][s] \in Finished /\ ~SvcReferenced(u, s, reg, cpc) THEN "none" ELSE pcs[u][s]]]

\* The pending cancellation is delivered: the task ends and the
\* start_polling_for_user calls awaiting it become runnable.
SvcCancelled(u, s) ==
    /\ svcPc[u][s] \in {"new", "fetch", "classify", "mark", "sleep", "retry"}
    /\ svcCancel[u][s]
    /\ svcCancel' = [svcCancel EXCEPT ![u][s] = FALSE]
    /\ svcPc' = SvcCollect([svcPc EXCEPT ![u][s] = CancelEnd(svcPc[u][s])], polling_tasks, callPc)
    /\ svcBatch' = [svcBatch EXCEPT ![u][s] = <<>>]
    /\ svcDelay' = [svcDelay EXCEPT ![u][s] = 0]
    /\ svcMade' = [svcMade EXCEPT ![u][s] = NoMade]
    /\ callPc' = [c \in CallIds |->
                    IF callPc[c] = "await" /\ callUser[c] = u /\ callTask[c] = s
                    THEN "ready" ELSE callPc[c]]
    /\ UNCHANGED <<otherVars, storeVars, running, supVars, monVars, stopVars, polling_tasks,
                   callUser, callTask>>

(***************************************************************************)
(* GmailService.start_polling_for_user / stop_polling_for_user.            *)
(***************************************************************************)
\* start_polling_for_user after stop_polling_for_user returned: no account:
\* raise; else create the task and register it.  reg, pcs: the registry and
\* the tasks after the del; acc: an OAuthAccount row exists.
FinishStart(c, u, acc, reg, pcs) ==
    /\ callPc' = [callPc EXCEPT ![c] = "idle"]
    /\ callUser' = [callUser EXCEPT ![c] = 0]
    /\ callTask' = [callTask EXCEPT ![c] = 0]
    /\ IF ~acc
       THEN /\ polling_tasks' = reg
            /\ svcPc' = pcs
            /\ UNCHANGED <<svcCancel, svcBatch, svcDelay, svcMade>>
       ELSE /\ \E s \in SvcSlots : pcs[u][s] = "none"
            /\ LET s == CHOOSE x \in SvcSlots :
                           pcs[u][x] = "none" /\ \A y \in SvcSlots : pcs[u][y] = "none" => x <= y
               IN /\ polling_tasks' = [reg EXCEPT ![u] = s]
                  /\ svcPc' = [pcs EXCEPT ![u][s] = "new"]
                  /\ svcCancel' = [svcCancel EXCEPT ![u][s] = FALSE]
                  /\ svcBatch' = [svcBatch EXCEPT ![u][s] = <<>>]
                  /\ svcDelay' = [svcDelay EXCEPT ![u][s] = 0]
                  /\ svcMade' = [svcMade EXCEPT ![u][s] = NoMade]

\* start_polling_for_user(u) up to its first suspension: a registered task
\* that is not done is cancelled and awaited; a done one is deleted.
StartPolling(c, u, acc) ==
    /\ callPc[c] = "idle"
    /\ LET s == polling_tasks[u]
       IN IF s # 0 /\ svcPc[u][s] \notin Finished
          THEN /\ svcCancel' = [svcCancel EXCEPT ![u][s] = TRUE]
               /\ callPc' = [callPc EXCEPT ![c] = "await"]
               /\ callUser' = [callUser EXCEPT ![c] = u]
               /\ callTask' = [callTask EXCEPT ![c] = s]
               /\ UNCHANGED <<polling_tasks, svcPc, svcBatch, svcDelay, svcMade>>
          ELSE LET reg == [polling_tasks EXCEPT ![u] = 0]
               IN FinishStart(c, u, acc, reg, SvcCollect(svcPc, reg, callPc))

\* a caller invokes gmail_service.start_polling_for_user(u)
StartPollingForUser(c, u) ==
    /\ StartPolling(c, u, account[u])
    /\ UNCHANGED <<otherVars, storeVars, running, supVars, monVars, stopVars>>

\* stop_polling_for_user after `await task`: del self._polling_tasks[u] (a
\* KeyError when a concurrent call deleted the entry ends the call), then
\* the rest of start_polling_for_user.
StartPollingResume(c) ==
    /\ callPc[c] = "ready"
    /\ LET u == callUser[c]
           cpc == [callPc EXCEPT ![c] = "idle"]
       IN IF polling_tasks[u] = 0
          THEN /\ callPc' = cpc
               /\ callUser' = [callUser EXCEPT ![c] = 0]
               /\ callTask' = [callTask EXCEPT ![c] = 0]
               /\ svcPc' = SvcCollect(svcPc, polling_tasks, cpc)
               /\ UNCHANGED <<polling_tasks, svcCancel, svcBatch, svcDelay, svcMade>>
          ELSE LET reg == [polling_tasks EXCEPT ![u] = 0]
               IN FinishStart(c, u, account[u], reg, SvcCollect(svcPc, reg, cpc))
    /\ UNCHANGED <<otherVars, storeVars, running, supVars, monVars, stopVars>>

(***************************************************************************)
(* The connection store and the provider.                                  *)
(***************************************************************************)
\* create_or_update_oauth_account for a user without a row: the row is
\* committed, then auto_start_polling_for_new_user starts the polling (its
\* failure is logged).
CreateOAuthAccount(c, u) ==
    /\ ~account[u]
    /\ account' = [account EXCEPT ![u] = TRUE]
    /\ StartPolling(c, u, TRUE)
    /\ UNCHANGED <<otherVars, mailbox, items, running, supVars, monVars, stopVars>>

\* disconnect_google_account: the row is deleted
Disconnect(u) ==
    /\ account[u]
    /\ account' = [account EXCEPT ![u] = FALSE]
    /\ UNCHANGED <<otherVars, mailbox, items, running, supVars, monVars, stopVars, svcVars, callVars>>

\* a new message reaches the mailbox of u
Arrive(u, m) ==
    /\ mailbox[u][m] = "future"
    /\ mailbox' = [mailbox EXCEPT ![u][m] = "unread"]
    /\ UNCHANGED <<otherVars, account, items, running, supVars, monVars, stopVars, svcVars, callVars>>

(***************************************************************************)
(* Specifications.                                                         *)
(***************************************************************************)
GmailInit ==
    /\ account \in [Users -> BOOLEAN]
    /\ mailbox = [u \in Users |-> [m \in MsgIds |-> "future"]]
    /\ items = [u \in Users |-> [m \in MsgIds |-> 0]]
    /\ running = FALSE
    /\ worker_tasks = {}
    /\ processed_keys = {}
    /\ processed = [u \in Users |-> {}]
    /\ supPc = [u \in Users |-> "none"]
    /\ supCancel = [u \in Users |-> FALSE]
    /\ supBatch = [u \in Users |-> <<>>]
    /\ supDelay = [u \in Users |-> 0]
    /\ supMade = [u \in Users |-> NoMade]
    /\ monPc = [i \in MonitorIds |-> "none"]
    /\ monUser = [i \in MonitorIds |-> 0]
    /\ monTodo = [i \in MonitorIds |-> {}]
    /\ monSync = [i \in MonitorIds |-> NoSync]
    /\ stopPc = "idle"
    /\ stopUser = 0
    /\ stopRem = {}
    /\ stopUsed = 0
    /\ polling_tasks = [u \in Users |-> 0]
    /\ svcPc = [u \in Users |-> [s \in SvcSlots |-> "none"]]
    /\ svcCancel = [u \in Users |-> [s \in SvcSlots |-> FALSE]]
    /\ svcBatch = [u \in Users |-> [s \in SvcSlots |-> <<>>]]
    /\ svcDelay = [u \in Users |-> [s \in SvcSlots |-> 0]]
    /\ svcMade = [u \in Users |-> [s \in SvcSlots |-> NoMade]]
    /\ callPc = [c \in CallIds |-> "idle"]
    /\ callUser = [c \in CallIds |-> 0]
    /\ callTask = [c \in CallIds |-> 0]

\* The supervisor with every user and empty mailboxes: the lifecycle of the
\* monitor, of the worker tasks and of stop().
SupInit == GmailInit /\ OtherIdle

SupNext ==
    \/ Start
    \/ StopCall
    \/ StopResume
    \/ \E i \in MonitorIds : MonitorPass(i) \/ MonitorResume(i)
    \/ \E u \in Users : SupRun(u) \/ SupWake(u) \/ SupFetchReturn(u) \/ SupCancelled(u)
    \/ \E u \in Users : Disconnect(u)

SpecSup == SupInit /\ [][SupNext]_vars

\* One user with a mailbox, polled by the supervisor's worker and by the
\* service's polling tasks.
PollUsers == {1}
PollMsgIds == 1..PollMsgs
PollCallIds == {1}
PollMonitorIds == {1}

PollInit == GmailInit /\ OtherIdle /\ \A u \in Users \ PollUsers : ~account[u]

PollNext ==
    \/ StartWith(PollMonitorIds)
    \/ StopCall
    \/ StopResume
    \/ \E i \in PollMonitorIds : MonitorPass(i) \/ MonitorResume(i)
    \/ \E u \in PollUsers :
          \/ SupRun(u) \/ SupWake(u) \/ SupFetchReturn(u)
          \/ SupClassifyReturn(u) \/ SupCancelled(u)
          \/ Disconnect(u)
          \/ \E m \in PollMsgIds : Arrive(u, m)
          \/ \E c \in PollCallIds : CreateOAuthAccount(c, u) \/ StartPollingForUser(c, u)
          \/ \E s \in SvcSlots :
                \/ SvcWake(u, s) \/ SvcFetchReturn(u, s) \/ SvcClassifyReturn(u, s)
                \/ SvcMarkReturn(u, s) \/ SvcCancelled(u, s)
    \/ \E c \in PollCallIds : StartPollingResume(c)

SpecPoll == PollInit /\ [][PollNext]_vars

\* One user whose mailbox receives messages with a text body, polled by the
\* supervisor's worker only, in one run of the supervisor: the growth and
\* the trimming of the dedup set.
DedupUsers == {1}
DedupMsgIds == {m \in MsgIds : BodyKind(m) = "text"}

DedupInit == GmailInit /\ OtherIdle /\ account = [u \in Users |-> u \in DedupUsers]

DedupNext ==
    \/ StartWith(PollMonitorIds)
    \/ \E i \in PollMonitorIds : MonitorPass(i)
    \/ \E u \in DedupUsers :
          \/ SupRun(u) \/ SupWake(u) \/ SupFetchReturn(u) \/ SupClassifyReturn(u)
          \/ \E m \in DedupMsgIds : Arrive(u, m)

SpecDedup == DedupInit /\ [][DedupNext]_vars

\* The supervisor as main.py runs it, with one monitor loop (start() is
\* called when no monitor task is left), every user, accounts that are
\* created and deleted, and empty mailboxes: the resync passes.
SyncInit == GmailInit /\ OtherIdle

SyncNext ==
    \/ StartWith(PollMonitorIds)
    \/ StopCall
    \/ StopResume
    \/ \E i \in PollMonitorIds : MonitorPass(i) \/ MonitorResume(i)
    \/ \E u \in Users :
          \/ SupRun(u) \/ SupWake(u) \/ SupFetchReturn(u) \/ SupCancelled(u)
          \/ Disconnect(u)
          \/ \E c \in PollCallIds : CreateOAuthAccount(c, u)
          \/ \E s \in SvcSlots : SvcCancelled(u, s)
    \/ \E c \in PollCallIds : StartPollingResume(c)

SpecSync == SyncInit /\ [][SyncNext]_vars

\* One user whose mailbox receives messages with a text body and messages
\* whose extracted body is empty, polled by the supervisor's worker and by
\* the polling task of GmailService.
BodyMsgIds == {m \in MsgIds : m <= 3 /\ BodyKind(m) # "bad"}

BodyInit == GmailInit /\ OtherIdle /\ \A u \in Users \ PollUsers : ~account[u]

BodyNext ==
    \/ StartWith(PollMonitorIds)
    \/ \E i \in PollMonitorIds : MonitorPass(i)
    \/ \E u \in PollUsers :
          \/ SupRun(u) \/ SupWake(u) \/ SupFetchReturn(u) \/ SupClassifyReturn(u)
          \/ \E c \in PollCallIds : CreateOAuthAccount(c, u)
          \/ \E s \in SvcSlots :
                \/ SvcWake(u, s) \/ SvcFetchReturn(u, s)
                \/ SvcClassifyReturn(u, s) \/ SvcMarkReturn(u, s)
          \/ \E m \in BodyMsgIds : Arrive(u, m)

SpecBody == BodyInit /\ [][BodyNext]_vars

\* GmailService alone, one user: start_polling_for_user calls that overlap
\* (requests are handled concurrently), the account created and deleted,
\* the polling tasks with an empty mailbox.
CallsInit == GmailInit /\ OtherIdle /\ \A u \in Users \ PollUsers : ~account[u]

CallsNext ==
    \/ \E u \in PollUsers :
          \/ Disconnect(u)
          \/ \E c \in CallIds : CreateOAuthAccount(c, u) \/ StartPollingForUser(c, u)
          \/ \E s \in SvcSlots :
                SvcWake(u, s) \/ SvcFetchReturn(u, s) \/ SvcCancelled(u, s)
    \/ \E c \in CallIds : StartPollingResume(c)

SpecCalls == CallsInit /\ [][CallsNext]_vars

\* One run of the supervisor from start(), without a stop() call: the
\* monitor loop, the workers, accounts created and deleted.  The event loop
\* runs every task that is ready, every sleep ends, a cancelled worker
\* reaches its CancelledError, and the query of a pass does not fail for
\* ever.
RunUsers == Users

\* a pass whose query did not fail
MonitorPassOk(i) == MonitorPass(i) /\ monSync'[i].state # "failed"

RunInit == GmailInit /\ OtherIdle

RunNext ==
    \/ StartWith(PollMonitorIds)
    \/ \E i \in PollMonitorIds : MonitorPass(i) \/ MonitorResume(i)
    \/ \E u \in RunUsers :
          \/ SupRun(u) \/ SupWake(u) \/ SupFetchReturn(u) \/ SupCancelled(u)
          \/ Disconnect(u)
          \/ \E c \in PollCallIds : CreateOAuthAccount(c, u)
          \/ \E s \in SvcSlots : SvcCancelled(u, s)
    \/ \E c \in PollCallIds : StartPollingResume(c)

RunFairness ==
    /\ WF_vars(StartWith(PollMonitorIds))
    /\ \A i \in PollMonitorIds : WF_vars(MonitorPassOk(i)) /\ WF_vars(MonitorResume(i))
    /\ \A u \in RunUsers : WF_vars(SupCancelled(u))

SpecRun == RunInit /\ [][RunNext]_vars /\ RunFairness

\* The supervisor's worker of one user whose mailbox receives a message
\* with a text body and a newer message whose extraction raises.  The event
\* loop runs the worker: every sleep ends; the store does not fail (every
\* process_and_classify_email stores its Item) and the provider does not
\* fail for ever: a cycle that reaches the fetch and a fetch that returns
\* every unread message keep happening.
StarveMsgIds == {m \in MsgIds : m <= 4 /\ BodyKind(m) # "empty"}

SupRunOk(u) == SupRun(u) /\ supPc'[u] = "fetch"
SupWakeOk(u) == SupWake(u) /\ supPc'[u] = "fetch"
SupFetchAll(u) ==
    /\ SupFetchReturn(u)
    /\ \E kept \in KeepChoices(processed[u]) :
          SupApply(u, SupScan(Prefix(NewestFirst(Unread(u)), MaxResults), processed[u],
                              u \in processed_keys, kept), supMade[u])
SupClassifyOk(u) == SupClassifyReturn(u) /\ items' # items

StarveNext ==
    \/ StartWith(PollMonitorIds)
    \/ \E i \in PollMonitorIds : MonitorPass(i)
    \/ \E u \in DedupUsers :
          \/ SupRun(u) \/ SupWake(u) \/ SupFetchReturn(u) \/ SupClassifyOk(u)
          \/ \E m \in StarveMsgIds : Arrive(u, m)

StarveFairness ==
    /\ WF_vars(StartWith(PollMonitorIds))
    /\ \A i \in PollMonitorIds : WF_vars(MonitorPassOk(i))
    /\ \A u \in DedupUsers :
          /\ WF_vars(SupRunOk(u)) /\ WF_vars(SupWakeOk(u))
          /\ SF_vars(SupFetchAll(u)) /\ WF_vars(SupClassifyOk(u))

SpecStarve == DedupInit /\ [][StarveNext]_vars /\ StarveFairness

(***************************************************************************)
(* Properties of the Gmail polling.                                        *)
(***************************************************************************)
SupLive == {"new", "fetch", "classify", "sleep", "retry"}
SvcLive == {"new", "fetch", "classify", "mark", "sleep", "retry"}

LiveSvcTasks(u) == {s \in SvcSlots : svcPc[u][s] \in SvcLive}
LiveWorkers(u) == (IF supPc[u] \in SupLive THEN 1 ELSE 0) + Cardinality(LiveSvcTasks(u))

\* C1: a poll worker (the supervisor's poll_user_gmail task or a
\* GmailService._poll_user_messages task) persists at most one Item for a
\* remote message id while the id is in its dedup window, however many poll
\* cycles return the id as unread.
C1_AtMostOneItemPerIdPerWorker ==
    \A u \in Users, m \in MsgIds :
        /\ supMade[u][m] <= 1
        /\ \A s \in SvcSlots : svcMade[u][s][m] <= 1

\* C2: at every reachable state a user has at most one live Gmail poll
\* worker task, counting the supervisor's workers and the tasks started by
\* GmailService.start_polling_for_user.
C2_AtMostOneLiveWorkerPerUser == \A u \in Users : LiveWorkers(u) <= 1

\* C3: once the OAuthAccount row of a user is deleted, no Item with source
\* gmail is created for that user until the user reconnects.
C3_NoItemAfterDisconnect ==
    [][\A u \in Users : (~account[u] /\ ~account'[u]) => items'[u] = items[u]]_vars

\* C4: when stop() has ended, every poll worker task that was started has
\* terminated and the worker registry and the dedup map are empty.
C4_StopLeavesNoWorker ==
    stopPc \in {"returned", "raised"} =>
        /\ worker_tasks = {}
        /\ processed_keys = {}
        /\ \A u \in Users : supPc[u] \notin SupLive

\* C5: a poll worker ends only by a cancellation (or, for the supervisor's
\* worker, by running being false at the head of its loop), never by a
\* failure of a fetch, an extraction, a classification or a write; and every
\* sleep of a worker, after a cycle or after a failed cycle, lasts the
\* polling interval.
C5_WorkerSurvivesFailures ==
    [][\A u \in Users :
          /\ (supPc[u] \in SupLive /\ supPc'[u] \notin SupLive) => (supCancel[u] \/ ~running)
          /\ supPc'[u] \in {"sleep", "retry"} => supDelay'[u] = polling_interval
          /\ \A s \in SvcSlots :
                /\ (svcPc[u][s] \in SvcLive /\ svcPc'[u][s] \notin SvcLive) => svcCancel[u][s]
                /\ svcPc'[u][s] \in {"sleep", "retry"} => svcDelay'[u][s] = polling_interval]_vars

\* a failed cycle of each kind of worker was caught: both workers are alive
\* in the sleep of their handler
C5_Witness ==
    /\ running
    /\ supPc[1] = "retry" /\ supDelay[1] = polling_interval /\ ~supCancel[1]
    /\ \E s \in SvcSlots : svcPc[1][s] = "retry" /\ svcDelay[1][s] = polling_interval

(***************************************************************************)
(* classify_message applied to one input.                                  *)
(***************************************************************************)
LongText ==
    "Quarterly infrastructure reliability documentation walkthrough preparation notes and other remarks for everybody involved in it"

Texts == {"", "hello", "Call me", "Window", "an Idea about the Meeting", LongText,
          "Let's meet tomorrow at 3pm to discuss the budget",
          "We SHOULD schedule it", "maybe finish it", "What if it rains"}

TitleValues == {Absent, JStr(""), JStr("Plan"), JStr(LongText), JNull, JList(<<>>)}
CategoryValues == {Absent, JStr("meeting"), JStr("thought"), JStr("urgent"), JStr("Task"),
                   JNull, JNum(300), JDict}
ConfidenceValues == {Absent, JNum(-50), JNum(0), JNum(50), JNum(100), JNum(150),
                     JBool(TRUE), JBool(FALSE), JNaN, JPosInf, JNegInf, JStr("high"), JNull}
EntitiesValues == {Absent, JDict, JNull}
ContactValues == {Absent, JStr("Ann")}
PriorityValues == {Absent, JStr("low"), JStr("high"), JStr("urgent"), JNull}
ActionValues == {Absent, JBool(TRUE)}
SummaryValues == {Absent, JStr("short"), JNum(100)}

ObjectReplies ==
    {Reply("object", t, c, f, e, k, p, a, m) :
        t \in TitleValues, c \in CategoryValues, f \in ConfidenceValues,
        e \in EntitiesValues, k \in ContactValues, p \in PriorityValues,
        a \in ActionValues, m \in SummaryValues}

GoodReply ==
    Reply("object", JStr("Plan"), JStr("task"), JNum(50), JDict, JStr("Ann"), JStr("high"),
          JBool(TRUE), JStr("short"))

FailedReplies ==
    {Bare(k) : k \in {"json_other", "not_json", "no_content", "no_choices",
                      "transport_error", "cancelled"}}

\* every text with every failure of the model path, with and without a
\* client; one text with every object the model can reply
ClsInit ==
    /\ GmailInit /\ account = [u \in Users |-> FALSE]
    /\ IngIdle /\ TgIdle /\ OAuthIdle
    /\ clsPc = "called"
    /\ clsOut = Ok(Absent)
    /\ \/ /\ clsText \in Texts
          /\ clsClient \in BOOLEAN
          /\ clsReply \in FailedReplies \cup {GoodReply}
       \/ /\ clsText = "Call me"
          /\ clsClient = TRUE
          /\ clsReply \in ObjectReplies

ClassifyMessage ==
    /\ clsPc = "called"
    /\ clsOut' = classify_message(clsText, clsClient, clsReply)
    /\ clsPc' = "done"
    /\ UNCHANGED <<gmailVars, oauthVars, ingVars, tgVars, clsText, clsClient, clsReply>>

ClsNext == ClassifyMessage

SpecCls == ClsInit /\ [][ClsNext]_vars

\* the model path was taken and failed
ModelPathFailed == clsClient /\ ModelPath(clsReply).exc # ""

\* C7: classify_message never raises: whatever the text, with or without a
\* client and whatever the model does (transport error, no content, a
\* reply that is not JSON, JSON that is no object, an object with wrongly
\* typed fields), it returns a classification record, and the record is
\* the keyword fallback of the text when there is no client or the model
\* path failed.  (A cancellation of the calling task during the API call is
\* not a behaviour of the model: it leaves the call as CancelledError.)
C7_ClassifyNeverRaises ==
    (clsPc = "done" /\ clsReply.kind # "cancelled") =>
        /\ clsOut.exc = ""
        /\ (~clsClient \/ ModelPathFailed) =>
               clsOut.value = fallback_classification(clsText)

\* an object whose confidence is a string made the validation raise and
\* the call returned the fallback
C7_Witness ==
    /\ clsPc = "done" /\ clsClient
    /\ clsReply.kind = "object" /\ clsReply.confidence = JStr("high")
    /\ clsOut = Ok(fallback_classification(clsText))

InEnum(v, valid) == v.t = "str" /\ v.s \in valid

\* C8: every record classify_message returns has a confidence in [0, 1], a
\* category of the four categories and a priority of the three
\* priorities; and a record of the normal path has category information
\* (priority medium) when the reply's category (priority) was not of the
\* enumeration.
C8_ClassificationInRange ==
    (clsPc = "done" /\ clsOut.exc = "") =>
        LET r == clsOut.value
        IN /\ r.confidence.t = "num" /\ 0 <= r.confidence.n /\ r.confidence.n <= 100
           /\ InEnum(r.category, valid_categories)
           /\ InEnum(r.priority, valid_priorities)
           /\ (clsClient /\ ~ModelPathFailed) =>
                 /\ (clsReply.category.t # "absent"
                       /\ ~InEnum(clsReply.category, valid_categories))
                    => r.category = JStr("information")
                 /\ (clsReply.priority.t # "absent"
                       /\ ~InEnum(clsReply.priority, valid_priorities))
                    => r.priority = JStr("medium")

\* a reply of the normal path with a confidence above 1 and a category and
\* a priority outside the enumerations
C8_Witness ==
    /\ clsPc = "done" /\ clsClient /\ ~ModelPathFailed
    /\ clsReply.category = JStr("urgent")
    /\ clsReply.confidence = JNum(150)
    /\ clsReply.priority = JNull
    /\ clsOut.exc = ""
    /\ clsOut.value.category = JStr("information")
    /\ clsOut.value.confidence = JNum(100)
    /\ clsOut.value.priority = JStr("medium")

(***************************************************************************)
(* The item store: crud.create_item_with_classification.                   *)
(***************************************************************************)
MaxRows == 2
DescriptionMax == 255
DescriptionCut == 1000

\* an optional classification dict
None == [none |-> TRUE, v |-> Absent]
Some(v) == [none |-> FALSE, v |-> v]

ItemCreate(title, description_len, source, message_type, original_text) ==
    [title |-> title, description_len |-> description_len, source |-> source,
     message_type |-> message_type, original_text |-> original_text]

\* a title resolution that does not look at the title of item_in
ResolveTitleFromText(item_in, classification) ==
    IF ~classification.none /\ Truthy(classification.v.title)
    THEN classification.v.title
    ELSE JStr(FallbackTitle(join(Prefix(split(item_in.original_text), FallbackTitleWords))))

\* the title of the Item (lines 115-124)
ResolveTitle(item_in, classification) ==
    IF ~classification.none /\ Truthy(classification.v.title)
    THEN classification.v.title
    ELSE IF item_in.title = "" /\ item_in.original_text # ""
    THEN JStr(FallbackTitle(join(Prefix(split(item_in.original_text), FallbackTitleWords))))
    ELSE JStr(item_in.title)

\* a store that commits each flush: the flushed Item stays
KeepFlushed(rows, item) == rows \cup {item}

\* The Item was flushed in the session's transaction and the transaction
\* did not commit: leaving `with Session(engine)` rolls it back.
Rollback(rows, item) == rows

\* create_item_with_classification.  fail: where the database fails, "none"
\* | "flush" | "commit" | "refresh".  The result is the exception raised
\* ("" when it returns) and the committed rows.
create_item_with_classification(rows, crows, item_in, owner_id, classification, fail) ==
    LET title == ResolveTitle(item_in, classification)
        id == Cardinality(rows) + 1
        item == [id |-> id, owner_id |-> owner_id, source |-> item_in.source,
                 message_type |-> item_in.message_type,
                 title |-> IF title.t = "str" THEN title.s ELSE "", commit |-> id]
        classification_data ==
            IF classification.none THEN {}
            ELSE {[item_id |-> id, category |-> classification.v.category,
                   confidence |-> classification.v.confidence,
                   priority |-> classification.v.priority, commit |-> id]}
    IN IF title.t # "str"                       \* Item.model_validate
       THEN [exc |-> "ValidationError", rows |-> rows, crows |-> crows, at |-> "validate"]
       ELSE IF fail = "flush"
       THEN [exc |-> "SQLAlchemyError", rows |-> rows, crows |-> crows, at |-> "flush"]
       ELSE IF fail = "commit"
       THEN [exc |-> "SQLAlchemyError", rows |-> Rollback(rows, item), crows |-> crows,
             at |-> "commit"]
       ELSE [exc |-> IF fail = "refresh" THEN "SQLAlchemyError" ELSE "",
             rows |-> rows \cup {item}, crows |-> crows \cup classification_data,
             at |-> IF fail = "refresh" THEN "refresh" ELSE "none"]

(***************************************************************************)
(* The ingestion operations.                                               *)
(***************************************************************************)
\* classification_result of classify_and_save_message and
\* process_user_message: None when classify_message raised an Exception
Classified(r) == IF r.exc = "" THEN Some(r.value) ELSE None

Ended(op, u, classified, c, outcome, reply) ==
    [op |-> op, user |-> u, classified |-> classified,
     write |-> IF c.at = "unreached" THEN "none" ELSE IF c.exc = "" THEN "ok" ELSE "failed",
     failed_at |-> IF c.at = "unreached" THEN "none" ELSE c.at,
     outcome |-> outcome, reply |-> reply, transcript |-> "none",
     item_title |-> "", original_text |-> "", cls_title |-> Absent]

\* the operation handled a voice or audio message whose transcription was
\* heard: "null" (None), "empty" ("") or "text"
Heard(ended, heard) == [ended EXCEPT !.transcript = heard]

\* an operation that ends without classifying or storing anything
Skipped(op, u, outcome, reply, heard) ==
    Heard([NoOp EXCEPT !.op = op, !.user = u, !.outcome = outcome, !.reply = reply], heard)

\* a handler that goes on whatever the transcription returned
AlwaysUnderstood(transcript) == TRUE

\* `if transcribed_text:` / `if not message_text: return`: None and "" are
\* falsy
Understood(transcript) == transcript = "text"

\* create_item_with_classification was not called
Unreached(exc) == [exc |-> exc, rows |-> db_items, crows |-> db_classifications,
                   at |-> "unreached"]

\* a store that loses what the operation committed
StoreNothing(c) == UNCHANGED <<db_items, db_classifications>>

Store(c) ==
    /\ db_items' = c.rows
    /\ db_classifications' = c.crows

\* GmailService.process_and_classify_email
process_and_classify_email(u, subject, body_len, client, reply, fail) ==
    \E full_text \in {"Subject: " \o subject} :
    \E r \in {classify_message(full_text, client, reply)} :
    \E item_create \in {ItemCreate(IF subject # "" THEN subject ELSE "No Subject",
                                   Min(body_len, DescriptionCut), "gmail", "email",
                                   full_text)} :
    \E c \in {IF r.exc # "" THEN Unreached(r.exc)
              ELSE IF item_create.description_len > DescriptionMax
              THEN Unreached("ValidationError")
              ELSE create_item_with_classification(db_items, db_classifications,
                                                   item_create, u, Some(r.value), fail)} :
       /\ Store(c)
       /\ ingOp' = Ended("gmail", u, TRUE, c,
                         IF c.exc = "" THEN "returned_item"
                         ELSE IF ExceptException(c.exc) THEN "returned_none"
                         ELSE "raised", "none")

\* TelegramClientService.classify_and_save_message
classify_and_save_message(u, message, message_type, client, reply, fail, heard) ==
    \E r \in {classify_message(message, client, reply)} :
    \E item_create \in {ItemCreate("", 0, "telegram", message_type, message)} :
    \E c \in {IF r.exc # "" /\ ~ExceptException(r.exc) THEN Unreached(r.exc)
              ELSE create_item_with_classification(db_items, db_classifications,
                                                   item_create, u, Classified(r), fail)} :
       /\ Store(c)
       /\ ingOp' = Heard(Ended("telegram", u, TRUE, c,
                               IF c.exc = "" \/ ExceptException(c.exc) THEN "returned_none"
                               ELSE "raised", "none"), heard)

\* TelegramBotService.send_classification_response: the text it replies
\* with, or the exception it raises: classification.contacts is no
\* attribute of ItemClassification
send_classification_response(has_classification) ==
    IF ~has_classification THEN Ok(JStr("saved")) ELSE Raise("AttributeError")

\* TelegramBotService.process_user_message
process_user_message(u, message, message_type, client, reply, fail, heard) ==
    \E r \in {classify_message(message, client, reply)} :
    \E item_create \in {ItemCreate("", 0, "telegram", message_type, message)} :
    \E c \in {IF r.exc # "" /\ ~ExceptException(r.exc) THEN Unreached(r.exc)
              ELSE create_item_with_classification(db_items, db_classifications,
                                                   item_create, u, Classified(r), fail)} :
    \E sent \in {IF c.exc # "" THEN Raise(c.exc)
                 ELSE send_classification_response(~Classified(r).none)} :
       /\ Store(c)
       /\ ingOp' = Heard(Ended("bot", u, TRUE, c,
                               IF sent.exc = "" \/ ExceptException(sent.exc) THEN "returned_none"
                               ELSE "raised",
                               IF sent.exc = "" THEN sent.value.s
                               ELSE IF ExceptException(sent.exc) THEN "error" ELSE "none"),
                         heard)

\* TelegramClientService.process_incoming_message.  found: the User row
\* exists; kind: what the message carries; transcript: what
\* transcribe_voice_message / transcribe_audio_message returned; sender:
\* message.get_sender() returned.  Every Exception is logged by the handler.
process_incoming_message(u, found, kind, transcript, sender, client, reply, fail) ==
    \E heard \in {IF kind \in {"voice", "audio"} THEN transcript ELSE "none"} :
        IF ~found \/ kind = "other" \/ (kind \in {"voice", "audio"} /\ ~Understood(transcript))
        THEN /\ UNCHANGED <<db_items, db_classifications>>
             /\ ingOp' = Skipped("listener", u, "returned_none", "none", heard)
        ELSE IF ~sender
        THEN /\ UNCHANGED <<db_items, db_classifications>>
             /\ ingOp' = Skipped("listener", u, "returned_none", "none", heard)
        ELSE classify_and_save_message(u, "From Ann: Call me", kind, client, reply, fail, heard)

\* TelegramBotService.handle_voice_message.  found: find_user_by_telegram
\* returned a user; edited: the edit_text of the try block succeeds (when it
\* raises, the handler edits the processing message to the error text).
handle_voice_message(u, found, transcript, edited, client, reply, fail) ==
    IF ~found
    THEN /\ UNCHANGED <<db_items, db_classifications>>
         /\ ingOp' = Skipped("bot_voice", u, "returned_none", "unrecognized", "none")
    ELSE IF ~edited
    THEN /\ UNCHANGED <<db_items, db_classifications>>
         /\ ingOp' = Skipped("bot_voice", u, "returned_none", "voice_error", transcript)
    ELSE IF Understood(transcript)
    THEN process_user_message(u, "Call me", "voice", client, reply, fail, transcript)
    ELSE /\ UNCHANGED <<db_items, db_classifications>>
         /\ ingOp' = Skipped("bot_voice", u, "returned_none", "not_understood", transcript)

ListTitleReply ==
    Reply("object", JList(<<"x">>), JStr("task"), JNum(50), JDict, Absent, JStr("high"),
          Absent, Absent)

\* the classifier of one operation: <<client, reply>>
IngestBehaviours ==
    {<<TRUE, r>> : r \in {GoodReply, ListTitleReply, Bare("transport_error"),
                          Bare("not_json"), Bare("cancelled")}}
    \cup {<<FALSE, GoodReply>>}
DbFailures == {"none", "flush", "commit", "refresh"}
BodyLengths == {10, 300}
IngestUsers == {1}

ProcessAndClassifyEmail(u) ==
    /\ Cardinality(db_items) < MaxRows
    /\ \E subject \in {"Call me", ""}, body_len \in BodyLengths, b \in IngestBehaviours,
          fail \in DbFailures :
          process_and_classify_email(u, subject, body_len, b[1], b[2], fail)
    /\ UNCHANGED <<gmailVars, oauthVars, clsVars, tgVars>>

ClassifyAndSaveMessage(u) ==
    /\ Cardinality(db_items) < MaxRows
    /\ \E b \in IngestBehaviours, fail \in DbFailures :
          classify_and_save_message(u, "From Ann: Call me", "text", b[1], b[2], fail, "none")
    /\ UNCHANGED <<gmailVars, oauthVars, clsVars, tgVars>>

ProcessUserMessage(u) ==
    /\ Cardinality(db_items) < MaxRows
    /\ \E b \in IngestBehaviours, fail \in DbFailures :
          process_user_message(u, "Call me", "voice", b[1], b[2], fail, "none")
    /\ UNCHANGED <<gmailVars, oauthVars, clsVars, tgVars>>

\* what a message of the listener carries, and what a transcription returns
MessageKinds == {"text", "voice", "audio", "other"}
Transcripts == {"null", "empty", "text"}

ProcessIncomingMessage(u) ==
    /\ Cardinality(db_items) < MaxRows
    /\ \E found \in BOOLEAN, kind \in MessageKinds, transcript \in Transcripts,
          sender \in BOOLEAN, b \in IngestBehaviours, fail \in DbFailures :
          process_incoming_message(u, found, kind, transcript, sender, b[1], b[2], fail)
    /\ UNCHANGED <<gmailVars, oauthVars, clsVars, tgVars>>

HandleVoiceMessage(u) ==
    /\ Cardinality(db_items) < MaxRows
    /\ \E found \in BOOLEAN, transcript \in Transcripts, edited \in BOOLEAN,
          b \in IngestBehaviours, fail \in DbFailures :
          handle_voice_message(u, found, transcript, edited, b[1], b[2], fail)
    /\ UNCHANGED <<gmailVars, oauthVars, clsVars, tgVars>>

\* A call of create_item_with_classification with any item title, original
\* text and classification title; cls_title Absent: classification is None,
\* JNull: the dict has no title.
ItemTitles == {"", "No Subject"}
TitleTexts == {"", "Call me", "Let's meet tomorrow at 3pm to discuss the budget", LongText}
ClassificationTitles == {Absent, JNull, JStr(""), JStr("Plan")}

ClassificationWith(title) ==
    IF title = Absent THEN None
    ELSE Some([title |-> title, category |-> JStr("task"), confidence |-> JNum(50),
               priority |-> JStr("low")])

CreateItemWithClassification(u) ==
    /\ Cardinality(db_items) < MaxRows
    /\ \E title \in ItemTitles, text \in TitleTexts, cls_title \in ClassificationTitles,
          fail \in DbFailures :
       \E c \in {create_item_with_classification(
                     db_items, db_classifications,
                     ItemCreate(title, 0, "telegram", "text", text), u,
                     ClassificationWith(cls_title), fail)} :
          /\ Store(c)
          /\ ingOp' = [Ended("create", u, cls_title # Absent, c,
                              IF c.exc = "" THEN "returned_item" ELSE "raised", "none")
                          EXCEPT !.item_title = title, !.original_text = text,
                                 !.cls_title = cls_title]
    /\ UNCHANGED <<gmailVars, oauthVars, clsVars, tgVars>>

IngInit == GmailInit /\ account = [u \in Users |-> FALSE] /\ OtherIdle

TitleNext == \E u \in IngestUsers : CreateItemWithClassification(u)

SpecTitle == IngInit /\ [][TitleNext]_vars

IngNext ==
    \E u \in IngestUsers :
        \/ ProcessAndClassifyEmail(u)
        \/ ClassifyAndSaveMessage(u)
        \/ ProcessUserMessage(u)
        \/ ProcessIncomingMessage(u)
        \/ HandleVoiceMessage(u)

SpecIng == IngInit /\ [][IngNext]_vars

\* C6: when create_item_with_classification raises inside
\* process_and_classify_email or classify_and_save_message, the operation
\* ends by raising to its caller.
C6_PersistenceFailurePropagated ==
    (ingOp.op \in {"gmail", "telegram"} /\ ingOp.write = "failed") =>
        ingOp.outcome = "raised"

\* C9: every committed Item of an ingestion operation has exactly one
\* Classification row, committed by the same commit.
C9_ItemHasOneClassification ==
    \A i \in db_items :
        \E c \in db_classifications :
            /\ c.item_id = i.id
            /\ c.commit = i.commit
            /\ \A d \in db_classifications : d.item_id = i.id => d = c

\* an operation failed at the commit, after its Item was flushed, and the
\* store holds the Item of an earlier operation with its Classification
C9_Witness ==
    /\ ingOp.classified /\ ingOp.failed_at = "commit"
    /\ Cardinality(db_items) = 1
    /\ Cardinality(db_classifications) = 1

(***************************************************************************)
(* TelegramClientService: create_client_session, verify_code_and_login,    *)
(* disconnect_user.  Each user has at most one call in progress; a call    *)
(* is cut at its awaits of the network.  Client objects are not reused.    *)
(***************************************************************************)
\* the objects the model has left for a new TelegramClient
Available == {c \in ClientIds : tgKind[c] = "free"}
NewClient == CHOOSE c \in Available : \A d \in Available : c <= d

\* an entry left in the registry
KeepClient(reg, key) == reg

\* del self.clients[key]
DelClient(reg, key) == [reg EXCEPT ![key] = 0]

\* the call of u returns ("ok", "disconnected" for disconnect_user) or
\* raises ("error", "second_factor_required")
EndCall(u, result) ==
    /\ tgPc' = [tgPc EXCEPT ![u] = "idle"]
    /\ tgTemp' = [tgTemp EXCEPT ![u] = 0]
    /\ tgPermanent' = [tgPermanent EXCEPT ![u] = 0]
    /\ tgKey' = [tgKey EXCEPT ![u] = 0]
    /\ tgPassword' = [tgPassword EXCEPT ![u] = FALSE]
    /\ tgResult' = [tgResult EXCEPT ![u] = result]

\* create_client_session up to await temp_client.connect()
CreateClientSession(u) ==
    /\ tgPc[u] = "idle" /\ Available # {}
    /\ LET c == NewClient
       IN /\ tgOwner' = [tgOwner EXCEPT ![c] = u]
          /\ tgKind' = [tgKind EXCEPT ![c] = "temp"]
          /\ tgHandler' = [tgHandler EXCEPT ![c] = FALSE]
          /\ tgTemp' = [tgTemp EXCEPT ![u] = c]
          /\ tgPc' = [tgPc EXCEPT ![u] = "create_connect"]
    /\ UNCHANGED <<clients, tgConnected, telegram_session, tgKey, tgPassword, tgPermanent,
                   tgResult, restoreVars,
                   gmailVars, oauthVars, clsVars, ingVars>>

\* connect() returned or raised; then await temp_client.send_code_request
CreateConnectReturn(u) ==
    /\ tgPc[u] = "create_connect"
    /\ \/ /\ tgConnected' = [tgConnected EXCEPT ![tgTemp[u]] = TRUE]
          /\ tgPc' = [tgPc EXCEPT ![u] = "create_send_code"]
          /\ UNCHANGED <<tgTemp, tgPermanent, tgKey, tgPassword, tgResult>>
       \/ /\ EndCall(u, "error")
          /\ UNCHANGED tgConnected
    /\ UNCHANGED <<clients, tgOwner, tgKind, tgHandler, telegram_session,
                   restoreVars,
                   gmailVars, oauthVars, clsVars, ingVars>>

\* send_code_request returned: self.clients[session_key] = temp_client; or
\* it raised: the handler logs and raises
CreateSendCodeReturn(u) ==
    /\ tgPc[u] = "create_send_code"
    /\ \/ /\ clients' = [clients EXCEPT ![session_key(u)] = tgTemp[u]]
          /\ EndCall(u, "ok")
       \/ /\ UNCHANGED clients
          /\ EndCall(u, "error")
    /\ UNCHANGED <<tgOwner, tgKind, tgConnected, tgHandler, telegram_session,
                   restoreVars,
                   gmailVars, oauthVars, clsVars, ingVars>>

\* the except handler of verify_code_and_login: disconnect and delete the
\* client registered under session_key, if there is one, and raise
\* exc: the exception in flight, "error" or "second_factor_required" (the
\* provider's demand of a password, raised again at line 69)
VerifyRaise(u, key, exc) ==
    IF clients[key] # 0
    THEN /\ tgPc' = [tgPc EXCEPT ![u] = IF exc = "error" THEN "verify_cleanup"
                                        ELSE "verify_cleanup_2fa"]
         /\ tgTemp' = [tgTemp EXCEPT ![u] = clients[key]]
         /\ UNCHANGED <<tgPermanent, tgKey, tgPassword, tgResult>>
    ELSE EndCall(u, exc)

VerifyCleanup(u, key) == VerifyRaise(u, key, "error")

\* verify_code_and_login up to await temp_client.sign_in(phone, code)
VerifyCodeAndLogin(u, key, password) ==
    /\ tgPc[u] = "idle"
    /\ IF clients[key] = 0
       THEN EndCall(u, "error")
       ELSE /\ tgPc' = [tgPc EXCEPT ![u] = "verify_sign_in"]
            /\ tgTemp' = [tgTemp EXCEPT ![u] = clients[key]]
            /\ tgKey' = [tgKey EXCEPT ![u] = key]
            /\ tgPassword' = [tgPassword EXCEPT ![u] = password]
            /\ UNCHANGED <<tgPermanent, tgResult>>
    /\ UNCHANGED <<clients, tgOwner, tgKind, tgConnected, tgHandler, telegram_session,
                   restoreVars,
                   gmailVars, oauthVars, clsVars, ingVars>>

\* permanent_client = TelegramClient(StringSession(session_string), ...)
\* up to await permanent_client.connect()
VerifyNewPermanent(u) ==
    /\ Available # {}
    /\ LET p == NewClient
       IN /\ tgOwner' = [tgOwner EXCEPT ![p] = u]
          /\ tgKind' = [tgKind EXCEPT ![p] = "permanent"]
          /\ tgHandler' = [tgHandler EXCEPT ![p] = FALSE]
          /\ tgPermanent' = [tgPermanent EXCEPT ![u] = p]
          /\ tgPc' = [tgPc EXCEPT ![u] = "verify_connect"]
          /\ UNCHANGED <<tgTemp, tgKey, tgPassword, tgResult>>

\* sign_in returned, or raised: with "password" in the message and a
\* password given the call goes on with sign_in(password=...), else it
\* raises into the handler
VerifySignInReturn(u) ==
    /\ tgPc[u] = "verify_sign_in"
    /\ \/ VerifyNewPermanent(u)
       \/ /\ tgPassword[u]
          /\ tgPc' = [tgPc EXCEPT ![u] = "verify_password"]
          /\ UNCHANGED <<tgOwner, tgKind, tgHandler, tgTemp, tgPermanent, tgKey,
                         tgPassword, tgResult>>
       \/ /\ ~tgPassword[u]
          /\ VerifyRaise(u, tgKey[u], "second_factor_required")
          /\ UNCHANGED <<tgOwner, tgKind, tgHandler>>
       \/ /\ VerifyCleanup(u, tgKey[u])
          /\ UNCHANGED <<tgOwner, tgKind, tgHandler>>
    /\ UNCHANGED <<clients, tgConnected, telegram_session, restoreVars,
                   gmailVars, oauthVars, clsVars, ingVars>>

VerifyPasswordReturn(u) ==
    /\ tgPc[u] = "verify_password"
    /\ \/ VerifyNewPermanent(u)
       \/ /\ VerifyCleanup(u, tgKey[u])
          /\ UNCHANGED <<tgOwner, tgKind, tgHandler>>
    /\ UNCHANGED <<clients, tgConnected, telegram_session, restoreVars,
                   gmailVars, oauthVars, clsVars, ingVars>>

\* permanent_client.connect() returned: self.clients[user_id] =
\* permanent_client, then await temp_client.disconnect(); or it raised
VerifyConnectReturn(u) ==
    /\ tgPc[u] = "verify_connect"
    /\ \/ /\ tgConnected' = [tgConnected EXCEPT ![tgPermanent[u]] = TRUE]
          /\ clients' = [clients EXCEPT ![u] = tgPermanent[u]]
          /\ tgPc' = [tgPc EXCEPT ![u] = "verify_disconnect_temp"]
          /\ UNCHANGED <<tgTemp, tgPermanent, tgKey, tgPassword, tgResult>>
       \/ /\ VerifyCleanup(u, tgKey[u])
          /\ UNCHANGED <<clients, tgConnected>>
    /\ UNCHANGED <<tgOwner, tgKind, tgHandler, telegram_session, restoreVars,
                   gmailVars, oauthVars, clsVars, ingVars>>

\* temp_client.disconnect() returned: del self.clients[session_key] (a
\* KeyError when the entry is gone), the handler is installed and the
\* session string saved (the write may fail); a raise after the del finds
\* no entry to clean up
VerifyDisconnectReturn(u) ==
    /\ tgPc[u] = "verify_disconnect_temp"
    /\ \/ /\ tgConnected' = [tgConnected EXCEPT ![tgTemp[u]] = FALSE]
          /\ IF clients[tgKey[u]] = 0
             THEN /\ EndCall(u, "error")
                  /\ UNCHANGED <<clients, tgHandler, telegram_session>>
             ELSE /\ clients' = DelClient(clients, tgKey[u])
                  /\ tgHandler' = [tgHandler EXCEPT ![tgPermanent[u]] = TRUE]
                  /\ \/ /\ telegram_session' =
                              [telegram_session EXCEPT ![u] = tgOwner[tgTemp[u]]]
                        /\ EndCall(u, "ok")
                     \/ /\ UNCHANGED telegram_session
                        /\ EndCall(u, "error")
       \* temp_client.disconnect() raised: the handler
       \/ /\ VerifyCleanup(u, tgKey[u])
          /\ UNCHANGED <<clients, tgConnected, tgHandler, telegram_session>>
    /\ UNCHANGED <<tgOwner, tgKind, restoreVars,
                   gmailVars, oauthVars, clsVars, ingVars>>

\* the handler after await self.clients[session_key].disconnect(): del
\* self.clients[session_key], raise
VerifyCleanupReturn(u) ==
    /\ tgPc[u] \in {"verify_cleanup", "verify_cleanup_2fa"}
    /\ tgConnected' = [tgConnected EXCEPT ![tgTemp[u]] = FALSE]
    /\ clients' = [clients EXCEPT ![tgKey[u]] = 0]
    /\ EndCall(u, IF tgPc[u] = "verify_cleanup" THEN "error" ELSE "second_factor_required")
    /\ UNCHANGED <<tgOwner, tgKind, tgHandler, telegram_session, restoreVars,
                   gmailVars, oauthVars, clsVars, ingVars>>

\* disconnect_user up to await self.clients[user_id].disconnect()
DisconnectUser(u) ==
    /\ tgPc[u] = "idle"
    /\ IF clients[u] = 0
       THEN EndCall(u, "disconnected")
       ELSE /\ tgPc' = [tgPc EXCEPT ![u] = "disconnect_await"]
            /\ tgTemp' = [tgTemp EXCEPT ![u] = clients[u]]
            /\ UNCHANGED <<tgPermanent, tgKey, tgPassword, tgResult>>
    /\ UNCHANGED <<clients, tgOwner, tgKind, tgConnected, tgHandler, telegram_session,
                   restoreVars,
                   gmailVars, oauthVars, clsVars, ingVars>>

\* disconnect() returned: del self.clients[user_id] and the stored session
\* is cleared (the write may fail); every exception is logged
DisconnectReturn(u) ==
    /\ tgPc[u] = "disconnect_await"
    /\ \/ /\ tgConnected' = [tgConnected EXCEPT ![tgTemp[u]] = FALSE]
          /\ clients' = [clients EXCEPT ![u] = 0]
          /\ \/ telegram_session' = [telegram_session EXCEPT ![u] = 0]
             \/ UNCHANGED telegram_session
       \/ UNCHANGED <<tgConnected, clients, telegram_session>>
    /\ EndCall(u, "disconnected")
    /\ UNCHANGED <<tgOwner, tgKind, tgHandler, restoreVars,
                   gmailVars, oauthVars, clsVars, ingVars>>

TgInit == GmailInit /\ account = [u \in Users |-> FALSE] /\ OtherIdle

\* the users who call the service
TgUsers == {1}

TgNext ==
    \E u \in TgUsers :
        \/ CreateClientSession(u) \/ CreateConnectReturn(u) \/ CreateSendCodeReturn(u)
        \/ \E w \in Users, password \in BOOLEAN : VerifyCodeAndLogin(u, session_key(w), password)
        \/ VerifySignInReturn(u) \/ VerifyPasswordReturn(u) \/ VerifyConnectReturn(u)
        \/ VerifyDisconnectReturn(u) \/ VerifyCleanupReturn(u)
        \/ DisconnectUser(u) \/ DisconnectReturn(u)

SpecTg == TgInit /\ [][TgNext]_vars

\* the client objects of user u that hold a connection
ConnectedClients(u) == {c \in ClientIds : tgOwner[c] = u /\ tgConnected[c]}

\* C10: at every reachable state a user has at most one connected Telegram
\* client object, transient or permanent.
C10_AtMostOneConnectedClientPerUser ==
    \A u \in Users : Cardinality(ConnectedClients(u)) <= 1

(***************************************************************************)
(* TelegramClientService.restore_user_sessions, awaited once by the        *)
(* lifespan of the application before any request is served.               *)
(***************************************************************************)
\* The for loop goes to its next user (in the order of the query, which has
\* no ORDER BY) and runs up to await client.connect(), or ends.
RestoreNext(todo) ==
    IF todo = {}
    THEN /\ restorePc' = "done"
         /\ restoreUser' = 0
         /\ restoreClient' = 0
         /\ restoreTodo' = {}
         /\ UNCHANGED <<tgOwner, tgKind>>
    ELSE /\ Available # {}
         /\ \E u \in todo :
               /\ restorePc' = "connect"
               /\ restoreUser' = u
               /\ restoreClient' = NewClient
               /\ restoreTodo' = todo \ {u}
               /\ tgOwner' = [tgOwner EXCEPT ![NewClient] = u]
               /\ tgKind' = [tgKind EXCEPT ![NewClient] = "restored"]

\* the users with a stored session are loaded
RestoreUserSessions ==
    /\ restorePc = "idle"
    /\ restoreUsers' = {u \in Users : telegram_session[u] # 0}
    /\ RestoreNext({u \in Users : telegram_session[u] # 0})
    /\ UNCHANGED <<clients, tgConnected, tgHandler, telegram_session, tgPc, tgKey,
                   tgPassword, tgTemp, tgPermanent, tgResult, gmailVars, oauthVars, clsVars, ingVars>>

\* client.connect() returned, or raised: the handler logs and the loop goes on
RestoreConnectReturn ==
    /\ restorePc = "connect"
    /\ \/ /\ tgConnected' = [tgConnected EXCEPT ![restoreClient] = TRUE]
          /\ restorePc' = "authorized"
          /\ UNCHANGED <<restoreUser, restoreClient, restoreTodo, tgOwner, tgKind>>
       \/ /\ RestoreNext(restoreTodo)
          /\ UNCHANGED tgConnected
    /\ UNCHANGED <<restoreUsers, clients, tgHandler, telegram_session, tgPc, tgKey,
                   tgPassword, tgTemp, tgPermanent, tgResult, gmailVars, oauthVars, clsVars, ingVars>>

\* client.is_user_authorized() returned True: the client is registered and
\* the handler installed; or False: the stored session is cleared and
\* committed, then await client.disconnect(); or the call or the commit
\* raised: the handler logs and the loop goes on.  After a failed commit the
\* database session may refuse every further statement: the handler's own
\* log line then raises and the restore ends.
RestoreAuthorizedReturn ==
    /\ restorePc = "authorized"
    /\ \/ /\ clients' = [clients EXCEPT ![restoreUser] = restoreClient]
          /\ tgHandler' = [tgHandler EXCEPT ![restoreClient] = TRUE]
          /\ RestoreNext(restoreTodo)
          /\ UNCHANGED telegram_session
       \/ /\ telegram_session' = [telegram_session EXCEPT ![restoreUser] = 0]
          /\ restorePc' = "disconnect"
          /\ UNCHANGED <<clients, tgHandler, restoreUser, restoreClient, restoreTodo,
                         tgOwner, tgKind>>
       \/ /\ RestoreNext(restoreTodo)
          /\ UNCHANGED <<clients, tgHandler, telegram_session>>
       \/ /\ restorePc' = "raised"
          /\ restoreUser' = 0
          /\ restoreClient' = 0
          /\ restoreTodo' = {}
          /\ UNCHANGED <<clients, tgHandler, telegram_session, tgOwner, tgKind>>
    /\ UNCHANGED <<restoreUsers, tgConnected, tgPc, tgKey, tgPassword, tgTemp, tgPermanent,
                   tgResult, gmailVars, oauthVars, clsVars, ingVars>>

\* client.disconnect() returned, or raised
RestoreDisconnectReturn ==
    /\ restorePc = "disconnect"
    /\ \/ tgConnected' = [tgConnected EXCEPT ![restoreClient] = FALSE]
       \/ UNCHANGED tgConnected
    /\ RestoreNext(restoreTodo)
    /\ UNCHANGED <<restoreUsers, clients, tgHandler, telegram_session, tgPc, tgKey,
                   tgPassword, tgTemp, tgPermanent, tgResult, gmailVars, oauthVars, clsVars, ingVars>>

\* the process starts with the sessions stored by earlier runs
RestoreInit ==
    /\ GmailInit /\ account = [u \in Users |-> FALSE]
    /\ ClsIdle /\ IngIdle /\ OAuthIdle /\ TgProcessStart
    /\ telegram_session \in [Users -> {0, 1}]

RestoreActions ==
    \/ RestoreUserSessions
    \/ RestoreConnectReturn
    \/ RestoreAuthorizedReturn
    \/ RestoreDisconnectReturn

SpecRestore == RestoreInit /\ [][RestoreActions]_vars

\* C13: after restore_user_sessions completes, every user who had a stored
\* session is either restored (a connected client with a handler is
\* registered under the user id) or cleared (no stored session, no
\* registered client, no connected client of the user).
C13_RestoredOrCleared ==
    restorePc = "done" =>
        \A u \in restoreUsers :
            \/ /\ clients[u] # 0
               /\ tgConnected[clients[u]]
               /\ tgHandler[clients[u]]
            \/ /\ telegram_session[u] = 0
               /\ clients[u] = 0
               /\ ConnectedClients(u) = {}

(***************************************************************************)
(* The OAuthAccount table: create_or_update_oauth_account,                 *)
(* disconnect_google_account, GmailService._get_valid_oauth_account and    *)
(* _refresh_token_if_needed, and the OAuth callback route.                 *)
(***************************************************************************)
NumProviderIds == 2
MaxTime == 2
MaxIssued == 2
MaxAccountIds == 2

ProviderIds == 1..NumProviderIds
OAuthUsers == {1}
OAuthCallIds == {1}

\* token_data: access_token; refresh_token (0: the key is absent);
\* expires_in in seconds (0: the key is absent)
TokenData(access_token, refresh_token, expires_in) ==
    [access_token |-> access_token, refresh_token |-> refresh_token,
     expires_in |-> expires_in]

RefreshTokens == {0, 1}
ExpiresInValues == {0, 1}

\* the rows of a user with provider "google"
AccountsOf(rows, u) == {r \in rows : r.user_id = u}

\* a connection that never counts as expired
NeverExpired(r, t) == FALSE

\* oauth_account.expires_at and oauth_account.expires_at <= datetime.utcnow()
Expired(r, t) == r.expires_at # 0 /\ r.expires_at <= t

\* create_or_update_oauth_account, lines 108-148: the row of (user, google,
\* provider_account_id) is updated, or a new row is added
UpsertAccount(rows, ids, u, pid, td, t) ==
    LET found == {r \in rows : r.user_id = u /\ r.provider_account_id = pid}
        expires_at == IF td.expires_in # 0 THEN t + td.expires_in ELSE 0
    IN IF found # {}
       THEN LET old == CHOOSE r \in found : TRUE
            IN [rows |-> (rows \ {old}) \cup
                           {[old EXCEPT !.access_token = td.access_token,
                                        !.refresh_token = td.refresh_token,
                                        !.expires_at = expires_at]},
                ids |-> ids, is_new_account |-> FALSE]
       ELSE [rows |-> rows \cup
                        {[id |-> ids + 1, user_id |-> u, provider_account_id |-> pid,
                          access_token |-> td.access_token,
                          refresh_token |-> td.refresh_token,
                          expires_at |-> expires_at]},
             ids |-> ids + 1, is_new_account |-> TRUE]

\* an update that leaves the stored access token as it was
RefreshKeepsToken(fresh_account, td, t) ==
    [fresh_account EXCEPT
        !.expires_at = IF td.expires_in # 0 THEN t + td.expires_in ELSE @]

\* _refresh_token_if_needed, lines 348-362: the row with the id of the
\* account is read again and updated
RefreshAccount(fresh_account, td, t) ==
    [fresh_account EXCEPT
        !.access_token = td.access_token,
        !.expires_at = IF td.expires_in # 0 THEN t + td.expires_in ELSE @]

\* What _get_valid_oauth_account can answer inside start_polling_for_user
\* for a user with these rows: the query has no ORDER BY, so first() can be
\* any row of the user; an expired row with a refresh token is refreshed,
\* which can fail (the refresh is reduced to its outcome here).
PollingAccountValid(rows, u, t) ==
    {~Expired(r, t) \/ (r.refresh_token # 0 /\ refreshed) :
        r \in AccountsOf(rows, u), refreshed \in BOOLEAN}

\* create_or_update_oauth_account(session, u, token_data, user_info) with
\* user_info.id = pid: the row is committed; for a new row
\* auto_start_polling_for_new_user runs start_polling_for_user, whose
\* exception is logged.
CreateOrUpdateOAuthAccount(c, u, pid, refresh_token, expires_in) ==
    /\ issued < MaxIssued
    /\ issued' = issued + 1
    /\ LET td == TokenData(issued + 1, refresh_token, expires_in)
           up == UpsertAccount(oauth_accounts, account_ids, u, pid, td, now)
       IN /\ up.ids <= MaxAccountIds
          /\ oauth_accounts' = up.rows
          /\ account_ids' = up.ids
          /\ IF up.is_new_account
             THEN /\ account' = [account EXCEPT ![u] = TRUE]
                  /\ \E acc \in PollingAccountValid(up.rows, u, now) : StartPolling(c, u, acc)
             ELSE UNCHANGED <<account, svcVars, callVars>>
    /\ UNCHANGED <<clsVars, ingVars, tgVars, mailbox, items, running, supVars, monVars,
                   stopVars, now, gvPc, gvCall, gvResult, oauth_states, cbPc, cbUser,
                   cbResult>>

\* disconnect_google_account: the row is deleted
DisconnectGoogleAccount(r) ==
    /\ r \in oauth_accounts
    /\ oauth_accounts' = oauth_accounts \ {r}
    /\ account' = [account EXCEPT ![r.user_id] =
                       AccountsOf(oauth_accounts \ {r}, r.user_id) # {}]
    /\ UNCHANGED <<clsVars, ingVars, tgVars, mailbox, items, running, supVars, monVars,
                   stopVars, svcVars, callVars, now, issued, account_ids, gvPc, gvCall,
                   gvResult, oauth_states, cbPc, cbUser, cbResult>>

\* time passes
Tick ==
    /\ now < MaxTime
    /\ now' = now + 1
    /\ UNCHANGED <<gmailVars, clsVars, ingVars, tgVars, oauth_accounts, issued, account_ids,
                   gvPc, gvCall, gvResult, oauth_states, cbPc, cbUser, cbResult>>

\* how a call of _get_valid_oauth_account ended
Answer(u, outcome, returned, examined, called_at, refresh, expires_in, persisted) ==
    [user |-> u, outcome |-> outcome, account |-> returned, examined |-> examined,
     called_at |-> called_at, refresh |-> refresh, expires_in |-> expires_in,
     persisted |-> persisted]

\* _get_valid_oauth_account(u) up to its return or to the await of
\* google_oauth_service.refresh_access_token
GetValidOAuthAccount(u) ==
    /\ gvPc = "idle"
    /\ IF AccountsOf(oauth_accounts, u) = {}
       THEN /\ gvResult' = Answer(u, "none", NoAccount, NoAccount, now, "none", 0, "none")
            /\ UNCHANGED <<gvPc, gvCall>>
       ELSE \E oauth_account \in AccountsOf(oauth_accounts, u) :
              IF ~Expired(oauth_account, now)
              THEN /\ gvResult' = Answer(u, "account", oauth_account, oauth_account, now,
                                         "none", 0, "none")
                   /\ UNCHANGED <<gvPc, gvCall>>
              ELSE IF oauth_account.refresh_token = 0
              THEN /\ gvResult' = Answer(u, "none", NoAccount, oauth_account, now,
                                         "none", 0, "none")
                   /\ UNCHANGED <<gvPc, gvCall>>
              ELSE /\ gvPc' = "refresh"
                   /\ gvCall' = [user |-> u, account |-> oauth_account, called_at |-> now]
                   /\ UNCHANGED gvResult
    /\ UNCHANGED <<gmailVars, clsVars, ingVars, tgVars, oauth_accounts, now, issued,
                   account_ids, oauth_states, cbPc, cbUser, cbResult>>

\* refresh_access_token returned token_data, or raised (a status other than
\* 200, a network error; a reply without access_token raises at line 354):
\* the handler logs and None is returned.  With token_data the row is read
\* again by its id, updated and committed; the commit can fail.
RefreshReturn ==
    /\ gvPc = "refresh"
    /\ gvPc' = "idle"
    /\ gvCall' = NoCall
    /\ LET u == gvCall.user
           examined == gvCall.account
           at == gvCall.called_at
           fresh == {r \in oauth_accounts : r.id = examined.id}
       IN \/ /\ gvResult' = Answer(u, "none", NoAccount, examined, at, "failed", 0, "none")
             /\ UNCHANGED <<oauth_accounts, issued>>
          \/ /\ issued < MaxIssued
             /\ issued' = issued + 1
             /\ \E expires_in \in ExpiresInValues :
                  LET td == TokenData(issued + 1, 0, expires_in)
                  IN IF fresh = {}
                     THEN /\ gvResult' = Answer(u, "none", NoAccount, examined, at, "ok",
                                                expires_in, "no_row")
                          /\ UNCHANGED oauth_accounts
                     ELSE LET fresh_account == CHOOSE r \in fresh : TRUE
                              updated == RefreshAccount(fresh_account, td, now)
                          IN \/ /\ oauth_accounts' =
                                      (oauth_accounts \ {fresh_account}) \cup {updated}
                                /\ gvResult' = Answer(u, "account", updated, examined, at,
                                                      "ok", expires_in, "committed")
                             \/ /\ UNCHANGED oauth_accounts
                                /\ gvResult' = Answer(u, "none", NoAccount, examined, at,
                                                      "ok", expires_in, "commit_failed")
    /\ UNCHANGED <<gmailVars, clsVars, ingVars, tgVars, now, account_ids, oauth_states,
                   cbPc, cbUser, cbResult>>

\* google_oauth_login: a state is stored for the user
GoogleOAuthLogin(u) ==
    /\ u \notin oauth_states
    /\ oauth_states' = oauth_states \cup {u}
    /\ UNCHANGED <<gmailVars, clsVars, ingVars, tgVars, oauth_accounts, now, issued,
                   account_ids, gvPc, gvCall, gvResult, cbPc, cbUser, cbResult>>

\* google_oauth_callback with the state of u, up to the await of
\* exchange_code_for_token; an unknown state is answered with the error
\* redirect
GoogleOAuthCallback(u) ==
    /\ cbPc = "idle"
    /\ IF u \notin oauth_states
       THEN /\ cbResult' = [user |-> u, outcome |-> "invalid_state"]
            /\ UNCHANGED <<oauth_states, cbPc, cbUser>>
       ELSE /\ oauth_states' = oauth_states \ {u}
            /\ cbPc' = "exchange"
            /\ cbUser' = u
            /\ UNCHANGED cbResult
    /\ UNCHANGED <<gmailVars, clsVars, ingVars, tgVars, oauth_accounts, now, issued,
                   account_ids, gvPc, gvCall, gvResult>>

\* exchange_code_for_token returned (the provider issued a token), or raised
CallbackExchangeReturn ==
    /\ cbPc = "exchange"
    /\ \/ /\ issued < MaxIssued
          /\ issued' = issued + 1
          /\ cbPc' = "user_info"
          /\ UNCHANGED <<cbUser, cbResult>>
       \/ /\ cbPc' = "idle"
          /\ cbUser' = 0
          /\ cbResult' = [user |-> cbUser, outcome |-> "error"]
          /\ UNCHANGED issued
    /\ UNCHANGED <<gmailVars, clsVars, ingVars, tgVars, oauth_accounts, now, account_ids,
                   gvPc, gvCall, gvResult, oauth_states>>

\* get_user_info returned, or raised.  Line 71 calls the coroutine function
\* create_or_update_oauth_account without await: the coroutine object is
\* bound to oauth_account and never run, so no row is written and no
\* polling is started; the success redirect is returned.
CallbackUserInfoReturn ==
    /\ cbPc = "user_info"
    /\ cbPc' = "idle"
    /\ cbUser' = 0
    /\ \E outcome \in {"success", "error"} :
          cbResult' = [user |-> cbUser, outcome |-> outcome]
    /\ UNCHANGED <<gmailVars, clsVars, ingVars, tgVars, oauth_accounts, now, issued,
                   account_ids, gvPc, gvCall, gvResult, oauth_states>>

OAuthInit == GmailInit /\ account = [u \in Users |-> FALSE] /\ OtherIdle

OAuthNext ==
    \/ Tick
    \/ RefreshReturn
    \/ CallbackExchangeReturn
    \/ CallbackUserInfoReturn
    \/ \E r \in oauth_accounts : DisconnectGoogleAccount(r)
    \/ \E u \in OAuthUsers :
          \/ GetValidOAuthAccount(u)
          \/ GoogleOAuthLogin(u)
          \/ GoogleOAuthCallback(u)
          \/ \E c \in OAuthCallIds, pid \in ProviderIds, refresh_token \in RefreshTokens,
                expires_in \in ExpiresInValues :
                CreateOrUpdateOAuthAccount(c, u, pid, refresh_token, expires_in)
          \/ \E s \in SvcSlots : SvcCancelled(u, s)
    \/ \E c \in OAuthCallIds : StartPollingResume(c)

SpecOAuth == OAuthInit /\ [][OAuthNext]_vars

\* C11: when verify_code_and_login ends with the error of a demanded second
\* factor (no password was supplied), the transient client registered under
\* the session key is still registered and connected, so that a following
\* verify with the same key and the password can succeed.
C11_SecondFactorKeepsTransientClient ==
    [][\A u \in Users :
          (tgPc[u] # "idle" /\ tgPc'[u] = "idle"
             /\ tgResult'[u] = "second_factor_required") =>
               /\ clients'[tgKey[u]] # 0
               /\ tgConnected'[clients'[tgKey[u]]]]_vars

\* C12: when verify_code_and_login returns success for a user, the session
\* token is stored for the user, the transient client of the session key is
\* disconnected and no longer registered, and the permanent client is
\* connected, has a message handler and is registered under the user id.
C12_VerifySuccess ==
    [][\A u \in Users :
          (tgPc[u] # "idle" /\ tgKey[u] # 0 /\ tgPc'[u] = "idle" /\ tgResult'[u] = "ok") =>
               /\ telegram_session'[u] # 0
               /\ clients'[tgKey[u]] = 0
               /\ ~tgConnected'[tgTemp[u]]
               /\ tgPermanent[u] # 0
               /\ clients'[u] = tgPermanent[u]
               /\ tgConnected'[tgPermanent[u]]
               /\ tgHandler'[tgPermanent[u]]]_vars

\* a verify call has returned success
C12_Witness ==
    /\ tgPc[1] = "idle" /\ tgResult[1] = "ok"
    /\ telegram_session[1] # 0
    /\ clients[session_key(1)] = 0
    /\ clients[1] # 0 /\ tgKind[clients[1]] = "permanent"
    /\ tgConnected[clients[1]] /\ tgHandler[clients[1]]

\* C14: after disconnect_user(user) has returned, the user has no
\* registered Telegram client and no stored session token.
C14_DisconnectClearsUser ==
    \A u \in Users :
        (tgPc[u] = "idle" /\ tgResult[u] = "disconnected") =>
            /\ clients[u] = 0
            /\ telegram_session[u] = 0

\* the answer of _get_valid_oauth_account carries the newly issued access
\* credential, is the row in the store, and expires after the call
RefreshedAnswer(answer, rows, token) ==
    /\ answer.outcome = "account"
    /\ answer.account.access_token = token
    /\ answer.account.access_token # answer.examined.access_token
    /\ answer.account \in rows
    /\ answer.account.expires_at > answer.called_at

C16_ExpiredWithoutRefreshFails ==
    [][(gvPc = "idle" /\ gvPc' = "idle" /\ gvResult' # gvResult
            /\ gvResult'.examined.id # 0
            /\ gvResult'.examined.expires_at # 0
            /\ gvResult'.examined.expires_at <= gvResult'.called_at
            /\ gvResult'.examined.refresh_token = 0) =>
           /\ gvResult'.outcome = "none"
           /\ gvResult'.account = NoAccount
           /\ oauth_accounts' = oauth_accounts]_vars

C16_Witness ==
    /\ gvPc = "idle"
    /\ gvResult.outcome = "none"
    /\ gvResult.refresh = "none"
    /\ gvResult.examined \in oauth_accounts
    /\ gvResult.examined.refresh_token = 0
    /\ gvResult.examined.expires_at # 0
    /\ gvResult.examined.expires_at <= gvResult.called_at

\* C17: when google_oauth_callback ends with the success redirect for a
\* user who had no Google connection, a poll worker of that user has been
\* started: the connection is stored and a polling task is registered for
\* the user or a start_polling_for_user call of the user is in progress.
C17_CallbackStartsPolling ==
    [][(cbPc = "user_info" /\ cbPc' = "idle" /\ cbResult'.outcome = "success"
            /\ AccountsOf(oauth_accounts, cbUser) = {}) =>
           /\ AccountsOf(oauth_accounts', cbUser) # {}
           /\ \/ polling_tasks'[cbUser] # 0
              \/ \E c \in CallIds : callPc'[c] # "idle" /\ callUser'[c] = cbUser]_vars

\* C18: the store holds at most one Google connection per user.
C18_OneAccountPerUser ==
    \A u \in Users : Cardinality(AccountsOf(oauth_accounts, u)) <= 1

\* C19: in the supervisor's poll worker the dedup set of a user never holds
\* more than the cap plus one ids, the states in the middle of a poll cycle
\* (the worker awaiting the classification of a further message) included.
C19_DedupWithinCapPlusOne ==
    \A u \in Users : Cardinality(processed[u]) <= DedupCap + 1

\* C20: when the dedup set is trimmed at the end of the for loop, the ids
\* that remain are the ones inserted last; the id inserted in this very
\* step, the most recent one, is among them.
C20_TrimKeepsMostRecent ==
    [][\A u \in Users :
          (/\ supPc[u] = "classify" /\ supPc'[u] = "sleep"
           /\ u \in processed_keys
           /\ Cardinality(processed[u] \cup {Head(supBatch[u])}) > DedupCap) =>
               Head(supBatch[u]) \in processed'[u]]_vars

\* C21: in a poll cycle of the supervisor's worker without a processing
\* failure, each message that is processed has an id that was not in the
\* dedup set, exactly one Item is created for it, and the id is in the dedup
\* set afterwards, at the next suspension of the worker.
C21_NewIdsYieldOneItemAndAreRemembered ==
    [][\A u \in Users :
          (supPc[u] = "classify" /\ supPc'[u] \in {"classify", "sleep"}
              /\ items' # items) =>
               LET m == Head(supBatch[u])
               IN /\ m \notin processed[u]
                  /\ items' = [items EXCEPT ![u][m] = @ + 1]
                  /\ m \in processed'[u]]_vars

\* C22: the keyword fallback decides by fixed precedence on the lower-cased
\* text: a meeting cue gives meeting/high/true; else a task cue gives
\* task/high/true; else a thought cue gives thought/low/false; else
\* information/medium/false.
C22_FallbackPrecedence ==
    (clsPc = "done" /\ ~clsClient) =>
        LET t == lower(clsText)
            has(cues) == \E w \in cues : Contains(t, w)
            expected ==
                IF has(meeting_keywords) THEN <<"meeting", "high", TRUE>>
                ELSE IF has(task_keywords) THEN <<"task", "high", TRUE>>
                ELSE IF has(thought_keywords) THEN <<"thought", "low", FALSE>>
                ELSE <<"information", "medium", FALSE>>
        IN /\ clsOut.exc = ""
           /\ clsOut.value.category = JStr(expected[1])
           /\ clsOut.value.priority = JStr(expected[2])
           /\ clsOut.value.action_required = JBool(expected[3])

\* without a client the text of the example was classified meeting/high/true
C22_Witness ==
    /\ clsPc = "done" /\ ~clsClient
    /\ clsText = "Let's meet tomorrow at 3pm to discuss the budget"
    /\ clsOut.exc = ""
    /\ clsOut.value.category = JStr("meeting")
    /\ clsOut.value.priority = JStr("high")
    /\ clsOut.value.action_required = JBool(TRUE)

\* the Item a step of process_user_message committed and its Classification
BotItems(before, after) ==
    {i \in after \ before : i.source = "telegram" /\ i.message_type = "voice"}

\* C23: when process_user_message has persisted the Item and the
\* classification reply then fails, the Item and its Classification are in
\* the store after the operation, with every row stored before.
C23_ReplyFailureKeepsItem ==
    [][(ingOp'.op = "bot" /\ ingOp'.write = "ok" /\ ingOp'.reply # "saved") =>
           /\ db_items \subseteq db_items'
           /\ db_classifications \subseteq db_classifications'
           /\ \E i \in BotItems(db_items, db_items') :
                 /\ i.owner_id = ingOp'.user
                 /\ \E c \in db_classifications' \ db_classifications :
                       c.item_id = i.id]_vars

\* the reply of a bot message failed and its Item is stored with its
\* Classification
C23_Witness ==
    /\ ingOp.op = "bot" /\ ingOp.write = "ok" /\ ingOp.reply = "error"
    /\ \E i \in db_items :
          /\ i.source = "telegram" /\ i.message_type = "voice"
          /\ i.id = Cardinality(db_items)
          /\ \E c \in db_classifications : c.item_id = i.id

\* C24: when process_user_message has persisted the Item of a message
\* with a Classification, the reply to the chat is the classification
\* summary and not the generic error reply.
C24_ReplyIsClassificationSummary ==
    [][(/\ ingOp'.op = "bot" /\ ingOp'.write = "ok"
        /\ \E i \in BotItems(db_items, db_items') :
              \E c \in db_classifications' : c.item_id = i.id) =>
           ingOp'.reply \notin {"error", "none", "saved"}]_vars

\* C25: when a pass of _sync_user_tasks ends without an exception, the
\* users in the worker registry are the users that had a Google account
\* with an access token when the pass made its query.
C25_RegistryEqualsActiveAfterSync ==
    [][\A i \in MonitorIds :
          (monSync'[i].pass # monSync[i].pass /\ monSync'[i].state = "ok") =>
               worker_tasks' = monSync'[i].active]_vars

\* a pass that stopped the worker of a user without an account, awaiting
\* its task, and started the worker of a user with one, has ended
C25_Witness ==
    \E i \in MonitorIds :
        /\ monPc[i] = "sleep"
        /\ monSync[i].state = "ok"
        /\ monSync[i].active = {2}
        /\ worker_tasks = {2}
        /\ supPc[1] = "none" /\ supPc[2] \in SupLive
        /\ ~account[1]

\* C26: while the supervisor is running, a user whose Google account stays
\* stored eventually has a live worker in the registry for good, and a user
\* whose account stays removed eventually has no entry in the registry for
\* good, whatever passes failed before.
C26_RegistryConverges ==
    \A u \in Users :
        /\ <>[](running /\ account[u]) =>
               <>[](u \in worker_tasks /\ supPc[u] \in SupLive)
        /\ <>[](running /\ ~account[u]) => <>[](u \notin worker_tasks)
\* the query of a pass has failed while user 1, with an account, has a live
\* registered worker and user 2, without one, has no entry
C26_Witness ==
    /\ running
    /\ \E i \in MonitorIds : monPc[i] = "sleep" /\ monSync[i].state = "failed"
    /\ account[1] /\ 1 \in worker_tasks /\ supPc[1] \in SupLive
    /\ ~account[2] /\ 2 \notin worker_tasks /\ supPc[2] = "none"

\* C27: while a poll worker that a stop has cancelled (_stop_user_task and
\* stop() of the supervisor, stop_polling_for_user of GmailService) is still
\* running, its user is in the worker registry, with the entry of that
\* task: the entry is removed only after the task has ended.
C27_EntryRemovedAfterTaskEnded ==
    \A u \in Users :
        /\ (supCancel[u] /\ supPc[u] \in SupLive) => u \in worker_tasks
        /\ \A s \in SvcSlots :
              (svcCancel[u][s] /\ svcPc[u][s] \in SvcLive) => polling_tasks[u] = s

\* C28: a cancellation delivered to a poll worker suspended in the fetch,
\* the classify call, the sleep after a cycle or the retry sleep after a
\* failed cycle ends the task by a return of the coroutine, never with the
\* CancelledError (poll_user_gmail and GmailService._poll_user_messages).
C28_CancelledWorkerReturns ==
    [][\A u \in Users :
          /\ (/\ supCancel[u] /\ supPc[u] \in {"fetch", "classify", "sleep", "retry"}
              /\ supPc'[u] \notin SupLive) => supPc'[u] # "cancelled"
          /\ \A s \in SvcSlots :
                (/\ svcCancel[u][s]
                 /\ svcPc[u][s] \in {"fetch", "classify", "mark", "sleep", "retry"}
                 /\ svcPc'[u][s] \notin SvcLive) => svcPc'[u][s] # "cancelled"]_vars

\* C29: no Item is created from an email whose extracted body is empty,
\* whichever poll path fetched it: the supervisor's poll_user_gmail or
\* GmailService._poll_user_messages.
C29_NoItemFromEmptyBody ==
    \A u \in Users, m \in MsgIds :
        BodyKind(m) = "empty" =>
            /\ items[u][m] = 0
            /\ supMade[u][m] = 0
            /\ \A s \in SvcSlots : svcMade[u][s][m] = 0

\* the same for the supervisor's poll worker alone
C29_NoItemFromEmptyBodySupervisor ==
    \A u \in Users, m \in MsgIds : BodyKind(m) = "empty" => supMade[u][m] = 0

\* the calls of verify_code_and_login that are past their first await
VerifyPcs == {"verify_sign_in", "verify_password", "verify_connect",
              "verify_disconnect_temp", "verify_cleanup", "verify_cleanup_2fa"}

\* a call of u ends by raising
TgCallFails(u) ==
    tgPc'[u] = "idle" /\ tgResult'[u] \in {"error", "second_factor_required"}

\* the part of C30 about verify_code_and_login: when the call fails, the
\* transient client of its session key is disconnected and its entry is
\* removed from the registry
C30_FailedVerifyCleansUp ==
    [][\A u \in Users :
          (tgPc[u] \in VerifyPcs /\ TgCallFails(u)) =>
              /\ clients'[tgKey[u]] = 0
              /\ ~tgConnected'[tgTemp[u]]]_vars

\* C30: no failure of the Telegram auth handshake leaves a transient client
\* behind: a failed verify_code_and_login has disconnected and unregistered
\* the transient client of its session key, and a failed
\* create_client_session (connect or send_code_request raising) does not
\* leave the client it created connected.
C30_FailedHandshakeLeavesNoClient ==
    [][\A u \in Users :
          /\ (tgPc[u] \in VerifyPcs /\ TgCallFails(u)) =>
                 /\ clients'[tgKey[u]] = 0
                 /\ ~tgConnected'[tgTemp[u]]
          /\ (tgPc[u] \in {"create_connect", "create_send_code"} /\ TgCallFails(u)) =>
                 ~tgConnected'[tgTemp[u]]]_vars

\* C31: when create_client_session replaces the transient client registered
\* under a user's session key by a new one, the old client is not left
\* connected: it is disconnected before or when it is replaced.
C31_ReplacedTransientClientDisconnected ==
    [][\A u \in Users :
          LET old == clients[session_key(u)]
              new == clients'[session_key(u)]
          IN (old # 0 /\ new # 0 /\ new # old) => ~tgConnected'[old]]_vars

FirstWordsTitle(text) ==
    LET words == split(text)
        joined == join(IF Len(words) > 6 THEN SubSeq(words, 1, 6) ELSE words)
    IN IF Len(joined) > 50 THEN SubSeq(joined, 1, 47) \o "..." ELSE joined

\* the Items a step of create_item_with_classification has persisted
CreatedItems == {i \in db_items' : i \notin db_items /\ ingOp'.op = "create"}

\* C33 as stated: the title of a persisted Item is the classification title
\* when that is non-empty, else the first words of original_text, else
\* empty, whatever the title of the item passed in.
C33_TitleResolutionOrder ==
    [][\A i \in CreatedItems :
          i.title = IF Truthy(ingOp'.cls_title) THEN ingOp'.cls_title.s
                    ELSE FirstWordsTitle(ingOp'.original_text)]_vars

\* C33, amended: the title of a persisted Item is the classification title
\* when that is non-empty; else the title of the item passed in when that is
\* non-empty; else the first 6 words of original_text (cut to 47 characters
\* and an ellipsis when longer than 50); else empty.
C33_TitleResolutionOrderWithItemTitle ==
    [][\A i \in CreatedItems :
          i.title = IF Truthy(ingOp'.cls_title) THEN ingOp'.cls_title.s
                    ELSE IF ingOp'.item_title # "" THEN ingOp'.item_title
                    ELSE FirstWordsTitle(ingOp'.original_text)]_vars

\* an Item was persisted with a title cut from a long original text, and
\* the earlier Item of the store has the title of its classification
C33_Witness ==
    /\ ingOp.op = "create" /\ ingOp.write = "ok"
    /\ ingOp.item_title = "" /\ ~Truthy(ingOp.cls_title)
    /\ ingOp.original_text = LongText
    /\ \E i \in db_items : i.title = SubSeq(LongText, 1, 47) \o "..."
    /\ \E i \in db_items : i.title = "Plan"

\* C34: a message id is in the dedup set of the supervisor's poll worker
\* only if an Item of that message has been persisted for the user.
C34_ProcessedOnlyIfPersisted ==
    \A u \in Users, m \in MsgIds : m \in processed[u] => items[u][m] > 0

\* C35: for each user and each Gmail message id at most one Item is
\* persisted while the message is unread at the provider, whichever poll
\* loops run for the user and however often they are stopped and started.
C35_AtMostOneItemPerMessage ==
    \A u \in Users, m \in MsgIds : mailbox[u][m] = "unread" => items[u][m] <= 1

\* C36: in the supervisor's poll worker every unread message with a text
\* body is eventually ingested, also when a message whose extraction raises
\* is returned before it in every cycle.
C36_FailingMessageDoesNotStarve ==
    \A u \in DedupUsers, m \in StarveMsgIds :
        BodyKind(m) = "text" => ((mailbox[u][m] = "unread") ~> (items[u][m] > 0))

\* the same when no message whose extraction raises is ever unread
C36_IngestedWithoutFailingMessage ==
    \A u \in DedupUsers, m \in StarveMsgIds :
        BodyKind(m) = "text" =>
            ((mailbox[u][m] = "unread"
                 /\ [](\A b \in StarveMsgIds : BodyKind(b) = "bad" => mailbox[u][b] # "unread"))
               ~> (items[u][m] > 0))

\* the monitor tasks that have not ended
MonLive == {"new", "sleep", "await", "ready"}

\* C37: whatever start() and stop() calls are made, at most one monitor loop
\* (_monitor_users) is active at any time.
C37_AtMostOneMonitorLoop ==
    Cardinality({i \in MonitorIds : monPc[i] \in MonLive}) <= 1

\* C38: whenever no Telegram session operation of a user is in progress,
\* the user has a registered connected client in
\* TelegramClientService.clients if and only if the user's stored session
\* token is not null.
C38_ClientIffStoredSession ==
    \A u \in Users :
        (tgPc[u] = "idle" /\ restorePc \in {"idle", "done", "raised"}) =>
            ((clients[u] # 0 /\ tgConnected[clients[u]]) <=> telegram_session[u] # 0)


(***************************************************************************)
(* Two users of the Telegram auth flow: the route verify_telegram_auth     *)
(* hands request.session_key to verify_code_and_login with the caller's    *)
(* user id, whatever user the key was made for.  User 2 starts an auth     *)
(* flow, user 1 verifies with a key of its choice.                         *)
(***************************************************************************)
CrossKeyNext ==
    \/ CreateClientSession(2) \/ CreateConnectReturn(2) \/ CreateSendCodeReturn(2)
    \/ CreateClientSession(1) \/ CreateConnectReturn(1) \/ CreateSendCodeReturn(1)
    \/ \E w \in Users, password \in BOOLEAN : VerifyCodeAndLogin(1, session_key(w), password)
    \/ VerifySignInReturn(1) \/ VerifyPasswordReturn(1) \/ VerifyConnectReturn(1)
    \/ VerifyDisconnectReturn(1) \/ VerifyCleanupReturn(1)

SpecCrossKey == TgInit /\ [][CrossKeyNext]_vars

\* C39: the Telegram session stored for a user is one made by that user's
\* own auth flow: a verify_code_and_login with the session key of another
\* user's pending flow never stores the other user's session under the
\* caller's id
C39_OwnSessionOnly ==
    \A u \in Users : telegram_session[u] \in {0, u}

\* C39: a verify_code_and_login of user A never removes the transient client
\* another user registered under its own session key
C39_OtherFlowNotConsumed ==
    [][\A u, w \in Users :
          (u # w /\ tgPc[u] \in VerifyPcs \cup {"verify_cleanup", "verify_cleanup_2fa"}
                 /\ tgPc'[u] # tgPc[u] /\ tgPc[w] = "idle" /\ tgPc'[w] = "idle")
              => clients'[session_key(w)] = clients[session_key(w)]]_vars


\* C40: whenever google_oauth_callback ends with the success redirect, the
\* store holds a Google OAuthAccount row of that user (the row that should
\* carry the token issued to this callback): success is never reported
\* without the connection having been persisted
C40_SuccessMeansPersisted ==
    [][(cbPc = "user_info" /\ cbPc' = "idle" /\ cbResult'.outcome = "success") =>
           AccountsOf(oauth_accounts', cbUser) # {}]_vars

====
